---- MODULE Spec2Model ----
(***************************************************************************)
(* Coupon Finder: the promotional-code detection engine                    *)
(* (src/src/coupon_detector.py) as a state machine.  Texts are sequences   *)
(* of one-character strings over ASCII letters, digits, white space and    *)
(* punctuation.  Confidences are IEEE-754 doubles, kept exactly as pairs   *)
(* of small integers (see the section on floating point).                  *)
(***************************************************************************)
EXTENDS Integers, Sequences, FiniteSets, TLC

----------------------------------------------------------------------------
(* Characters *)

LowerSeq ==
  <<"a","b","c","d","e","f","g","h","i","j","k","l","m",
    "n","o","p","q","r","s","t","u","v","w","x","y","z">>

UpperSeq ==
  <<"A","B","C","D","E","F","G","H","I","J","K","L","M",
    "N","O","P","Q","R","S","T","U","V","W","X","Y","Z">>

LowerLetters == { LowerSeq[i] : i \in 1..26 }

UpperLetters == { UpperSeq[i] : i \in 1..26 }

Digits == {"0","1","2","3","4","5","6","7","8","9"}

\* [A-Z0-9] on upper-cased text
AlnumUpper == UpperLetters \cup Digits

\* \s
Whitespace == {" ", "\t", "\n"}

\* U+212A KELVIN SIGN, a letter outside ASCII: str.upper() leaves it as it
\* is (see ToUpper) and str.lower() makes it the letter k
KelvinSign == "U+212A"

\* \w, for \b
WordChars == UpperLetters \cup LowerLetters \cup Digits \cup {"_", KelvinSign}

\* re.IGNORECASE on a character of upper-cased text: the character of a
\* pattern it is taken for
FoldsTo(c) == IF c = KelvinSign THEN "K" ELSE c

\* str.upper() on one character
UpperOf ==
  [c \in LowerLetters |-> UpperSeq[CHOOSE i \in 1..26 : LowerSeq[i] = c]]

ToUpper(c) == IF c \in LowerLetters THEN UpperOf[c] ELSE c

\* str.upper()
upper(s) == [i \in 1..Len(s) |-> ToUpper(s[i])]

----------------------------------------------------------------------------
(* String helpers: the str methods and the re.sub the detector uses *)

\* None, the value of an argument that is absent: no text, and not the
\* empty text
Absent == <<"None">>

\* bool(x) for a text or None
Truthy(x) == x # Absent /\ x # <<>>

\* the exception that None.upper() raises, as the outcome of a call
AttributeError == <<"AttributeError">>

\* f"{x}": str(None) is the word None
Format(x) == IF x = Absent THEN <<"N","o","n","e">> ELSE x

\* f"{subject} {body}"
AllText(subject, body) == Format(subject) \o <<" ">> \o Format(body)

\* s[i:].startswith(pat), i is 1-based
StartsAt(s, i, pat) ==
  /\ i + Len(pat) - 1 <= Len(s)
  /\ \A j \in 1..Len(pat) : s[i + j - 1] = pat[j]

\* pattern.match(s, i) for a literal pat compiled with re.IGNORECASE
StartsAtIC(s, i, pat) ==
  /\ i + Len(pat) - 1 <= Len(s)
  /\ \A j \in 1..Len(pat) : FoldsTo(s[i + j - 1]) = pat[j]

\* pat in s
Contains(s, pat) == \E i \in 1..(Len(s) - Len(pat) + 1) : StartsAt(s, i, pat)

RECURSIVE ReplaceFrom(_, _, _, _)
\* str.replace(pat, rep): leftmost occurrences, not overlapping, one pass
ReplaceFrom(s, i, pat, rep) ==
  IF i > Len(s) THEN <<>>
  ELSE IF StartsAt(s, i, pat)
       THEN rep \o ReplaceFrom(s, i + Len(pat), pat, rep)
       ELSE <<s[i]>> \o ReplaceFrom(s, i + 1, pat, rep)

Replace(s, pat, rep) == ReplaceFrom(s, 1, pat, rep)

RECURSIVE CollapseFrom(_, _)
\* re.sub(r'\s+', ' ', s)
CollapseFrom(s, i) ==
  IF i > Len(s) THEN <<>>
  ELSE IF s[i] \in Whitespace
       THEN IF i > 1 /\ s[i - 1] \in Whitespace
            THEN CollapseFrom(s, i + 1)
            ELSE <<" ">> \o CollapseFrom(s, i + 1)
       ELSE <<s[i]>> \o CollapseFrom(s, i + 1)

CollapseWhitespace(s) == CollapseFrom(s, 1)

\* str.strip()
Strip(s) ==
  LET keep == { i \in 1..Len(s) : s[i] \notin Whitespace }
  IN  IF keep = {} THEN <<>>
      ELSE LET lo == CHOOSE i \in keep : \A j \in keep : i <= j
               hi == CHOOSE i \in keep : \A j \in keep : j <= i
           IN  SubSeq(s, lo, hi)

----------------------------------------------------------------------------
(* CouponDetector.__init__: the tables *)

\* self.keywords
keywords ==
  << <<"c","o","u","p","o","n">>,
     <<"p","r","o","m","o"," ","c","o","d","e">>,
     <<"p","r","o","m","o">>,
     <<"d","i","s","c","o","u","n","t">>,
     <<"%"," ","o","f","f">>,
     <<"p","e","r","c","e","n","t"," ","o","f","f">>,
     <<"d","e","a","l">>,
     <<"o","f","f","e","r">>,
     <<"s","a","l","e">>,
     <<"s","a","v","e">>,
     <<"c","o","d","e">>,
     <<"v","o","u","c","h","e","r">>,
     <<"r","e","b","a","t","e">>,
     <<"s","p","e","c","i","a","l"," ","o","f","f","e","r">>,
     <<"l","i","m","i","t","e","d"," ","t","i","m","e">>,
     <<"e","x","c","l","u","s","i","v","e">>,
     <<"f","l","a","s","h"," ","s","a","l","e">>,
     <<"c","l","e","a","r","a","n","c","e">>,
     <<"m","a","r","k","d","o","w","n">>,
     <<"r","e","d","u","c","e","d">>,
     <<"b","a","r","g","a","i","n">>,
     <<"b","o","n","u","s">>,
     <<"f","r","e","e"," ","s","h","i","p","p","i","n","g">>,
     <<"b","u","y"," ","o","n","e"," ","g","e","t"," ","o","n","e">>,
     <<"b","o","g","o">>,
     <<"h","a","l","f"," ","p","r","i","c","e">>,
     <<"p","r","i","c","e"," ","d","r","o","p">>,
     <<"s","l","a","s","h","e","d">>,
     <<"c","u","t"," ","p","r","i","c","e">>,
     <<"p","r","o","m","o","t","i","o","n","a","l"," ","c","o","d","e">>,
     <<"d","i","s","c","o","u","n","t"," ","c","o","d","e">>,
     <<"s","a","v","i","n","g","s"," ","c","o","d","e">>,
     <<"c","h","e","c","k","o","u","t"," ","c","o","d","e">>,
     <<"r","e","d","e","e","m">>,
     <<"a","p","p","l","y"," ","c","o","d","e">>,
     <<"e","n","t","e","r"," ","c","o","d","e">>,
     <<"u","s","e"," ","c","o","d","e">> >>

\* self.false_positives
false_positives ==
  { <<"U","N","S","U","B","S","C","R","I","B","E">>,
    <<"S","U","B","S","C","R","I","B","E">>,
    <<"E","M","A","I","L">>,
    <<"G","M","A","I","L">>,
    <<"Y","A","H","O","O">>,
    <<"H","O","T","M","A","I","L">>,
    <<"A","M","A","Z","O","N">>,
    <<"G","O","O","G","L","E">>,
    <<"F","A","C","E","B","O","O","K">>,
    <<"T","W","I","T","T","E","R">>,
    <<"I","N","S","T","A","G","R","A","M">>,
    <<"L","I","N","K","E","D","I","N">>,
    <<"M","O","N","D","A","Y">>,
    <<"T","U","E","S","D","A","Y">>,
    <<"W","E","D","N","E","S","D","A","Y">>,
    <<"T","H","U","R","S","D","A","Y">>,
    <<"F","R","I","D","A","Y">>,
    <<"S","A","T","U","R","D","A","Y">>,
    <<"S","U","N","D","A","Y">>,
    <<"J","A","N","U","A","R","Y">>,
    <<"F","E","B","R","U","A","R","Y">>,
    <<"M","A","R","C","H">>,
    <<"A","P","R","I","L">>,
    <<"J","U","N","E">>,
    <<"J","U","L","Y">>,
    <<"A","U","G","U","S","T">>,
    <<"S","E","P","T","E","M","B","E","R">>,
    <<"O","C","T","O","B","E","R">>,
    <<"N","O","V","E","M","B","E","R">>,
    <<"D","E","C","E","M","B","E","R">>,
    <<"H","T","T","P","S">>,
    <<"H","T","T","P">>,
    <<"C","L","I","C","K">>,
    <<"H","E","R","E">>,
    <<"L","I","N","K">>,
    <<"B","U","T","T","O","N">>,
    <<"I","M","A","G","E">>,
    <<"V","I","D","E","O">>,
    <<"P","H","O","N","E">>,
    <<"A","D","D","R","E","S","S">>,
    <<"C","O","N","T","A","C","T">>,
    <<"S","U","P","P","O","R","T">>,
    <<"H","E","L","P">>,
    <<"F","A","Q">>,
    <<"T","E","R","M","S">>,
    <<"P","R","I","V","A","C","Y">> }

----------------------------------------------------------------------------
(* Text normalisation and keyword lookup *)

Amp == <<"&">>

\* mutant: the test "if not text" is left out
clean_text_unguarded(text) ==
  IF text = Absent THEN AttributeError
  ELSE LET t1 == upper(text)
           t2 == CollapseWhitespace(t1)
           t3 == Replace(t2, <<"&","A","M","P",";">>, Amp)
           t4 == Replace(t3, <<"&","L","T",";">>, <<"<">>)
           t5 == Replace(t4, <<"&","G","T",";">>, <<">">>)
           t6 == Replace(t5, <<"&","N","B","S","P",";">>, <<" ">>)
           t7 == Replace(t6, <<"&","Q","U","O","T",";">>, <<"\"">>)
       IN  Strip(t7)

\* CouponDetector.clean_text
clean_text(text) ==
  IF ~Truthy(text) THEN <<>>
  ELSE LET t1 == upper(text)
           t2 == CollapseWhitespace(t1)
           t3 == Replace(t2, <<"&","A","M","P",";">>, Amp)
           t4 == Replace(t3, <<"&","L","T",";">>, <<"<">>)
           t5 == Replace(t4, <<"&","G","T",";">>, <<">">>)
           t6 == Replace(t5, <<"&","N","B","S","P",";">>, <<" ">>)
           t7 == Replace(t6, <<"&","Q","U","O","T",";">>, <<"\"">>)
       IN  Strip(t7)

\* keyword.upper() for every table entry
keywordsUpper == [k \in 1..Len(keywords) |-> upper(keywords[k])]

\* CouponDetector.extract_keywords: the keywords found, in table order
extract_keywords(text) ==
  LET clean == clean_text(text)
      found == { k \in 1..Len(keywords) : Contains(clean, keywordsUpper[k]) }
      F[k \in 0..Len(keywords)] ==
        IF k = 0 THEN <<>>
        ELSE IF k \in found THEN Append(F[k - 1], keywords[k]) ELSE F[k - 1]
  IN  F[Len(keywords)]

----------------------------------------------------------------------------
(* Floating point.  A double x is kept exactly as <<n, d>> with            *)
(*     x = n/20 + d/(20 * 2^60),                                           *)
(* n the nominal value in twentieths and d the representation error.       *)
(* Addition adds the pairs and rounds to the nearest double, ties to even. *)

F0_0 == <<0, 0>>

F0_05 == <<1, 64>>

F0_1 == <<2, 128>>

F0_15 == <<3, -128>>

F0_2 == <<4, 256>>

F0_3 == <<6, -256>>

F0_5 == <<10, 0>>

F1_0 == <<20, 0>>

\* x < y on doubles
FLess(x, y) == x[1] < y[1] \/ (x[1] = y[1] /\ x[2] < y[2])

\* x >= t/20, for an integer t
FAtLeast(x, t) == x[1] > t \/ (x[1] = t /\ x[2] >= 0)

\* spacing of the doubles around x, in units of 2^-60
Ulp(x) ==
  IF FAtLeast(x, 40) THEN 512
  ELSE IF FAtLeast(x, 20) THEN 256
  ELSE IF FAtLeast(x, 10) THEN 128
  ELSE IF FAtLeast(x, 5) THEN 64
  ELSE IF x[1] >= 3 THEN 32
  ELSE IF x[1] >= 2 THEN 16
  ELSE 8

\* x without the multiples of 1/20 it holds, in units of 2^-60
Excess(x) == ((x[1] * 4096 + x[2]) % 20480) \div 20

\* x moved down by r or up by g - r units of 2^-60, whichever is nearer;
\* halfway, to the even neighbour (the one q = r tells to lie below)
Nearest(x, g, r, q) ==
  IF r = 0 THEN x
  ELSE IF 2 * r < g THEN <<x[1], x[2] - 20 * r>>
  ELSE IF 2 * r > g THEN <<x[1], x[2] + 20 * (g - r)>>
  ELSE IF q = r THEN <<x[1], x[2] - 20 * r>>
  ELSE <<x[1], x[2] + 20 * (g - r)>>

\* x with spacing g around it
RoundTo(x, g) == Nearest(x, g, Excess(x) % g, Excess(x) % (2 * g))

\* round an exact value to the nearest double, ties to even
FRound(x) == IF x = F0_0 THEN x ELSE RoundTo(x, Ulp(x))

\* x + y
FAdd(x, y) == FRound(<<x[1] + y[1], x[2] + y[2]>>)

\* k * x, k a non-negative integer
FMulInt(k, x) == FRound(<<k * x[1], k * x[2]>>)

\* min(x, y)
FMin(x, y) == IF FLess(y, x) THEN y ELSE x

\* the literals 0.05, 0.1, ..., 1.0: the error of the double nearest n/20
TwentiethError ==
  <<64, 128, -128, 256, 0, -256, -512, 512, 256, 0, 1024, -512, 512, -1024, 0, 1024, -512, 512, -1024, 0>>

\* the double nearest n/20, for n in 1..20
Twentieths(n) == <<n, TwentiethError[n]>>

----------------------------------------------------------------------------
(* The regular expressions.  A pattern is a sequence of alternatives tried *)
(* in order; an alternative is a sequence of parts and the index of the    *)
(* part that is capture group 1 (0: none).  Parts:                         *)
(*   lit    one of several literals, tried in order                       *)
(*   cls    a character class repeated lo..hi times, greedy                *)
(*   wb     \b                                                             *)
(*   end    (?=[\s\.,!]|$)                                                 *)
(*   ahead  (?=.*(?:w1|w2|...))                                            *)
(* re.IGNORECASE: literals are written in upper case and [A-Z] takes both  *)
(* cases and the letters outside ASCII whose other case is an ASCII        *)
(* letter; of these the Kelvin sign is the one the texts here hold.        *)

Lit(ws) == [t |-> "lit", alts |-> ws]

Cls(S, lo, hi) == [t |-> "cls", set |-> S, lo |-> lo, hi |-> hi]

Wb == [t |-> "wb"]

End == [t |-> "end"]

Ahead(ws) == [t |-> "ahead", alts |-> ws]

\* S* : a limit of -1 is never used up
Star(S) == Cls(S, 0, -1)

LettersIC == UpperLetters \cup LowerLetters \cup {KelvinSign}

AlnumIC == LettersIC \cup Digits

PromoPrefixes == <<<<"S","A","V","E">>, <<"G","E","T">>, <<"P","R","O","M","O">>, <<"D","E","A","L">>, <<"O","F","F","E","R">>, <<"C","O","D","E">>, <<"D","I","S","C","O","U","N","T">>, <<"S","A","L","E">>>>

Percentages == <<<<"1","0">>, <<"1","5">>, <<"2","0">>, <<"2","5">>, <<"3","0">>, <<"4","0">>, <<"5","0">>, <<"6","0">>, <<"7","0">>, <<"7","5">>, <<"8","0">>, <<"9","0">>>>

PercentWords == <<<<"O","F","F">>, <<"P","E","R","C","E","N","T">>, <<"P","C","T">>>>

Seasons ==
  <<<<"S","U","M","M","E","R">>, <<"W","I","N","T","E","R">>, <<"S","P","R","I","N","G">>, <<"F","A","L","L">>, <<"H","O","L","I","D","A","Y">>, <<"X","M","A","S">>, <<"B","L","A","C","K">>, <<"C","Y","B","E","R">>, <<"F","R","I","D","A","Y">>, <<"M","O","N","D","A","Y">>>>

ShipWords == <<<<"F","R","E","E">>, <<"S","H","I","P">>, <<"S","H","I","P","P","I","N","G">>>>

WelcomeWords == <<<<"W","E","L","C","O","M","E">>, <<"N","E","W">>, <<"F","I","R","S","T">>, <<"H","E","L","L","O">>>>

CheckoutWords == <<<<"C","H","E","C","K","O","U","T">>, <<"C","A","R","T">>, <<"O","R","D","E","R">>, <<"P","U","R","C","H","A","S","E">>, <<"B","U","Y">>>>

OpenQuotes == {"\"", "'", "[", "(", "{"}

CloseQuotes == {"\"", "'", "]", ")", "}"}

One(ps) == << [parts |-> ps, group |-> 0] >>

\* self.coupon_patterns, in table order
coupon_patterns ==
  << One(<<Wb, Cls(AlnumIC, 5, 15), Wb, End>>),
     One(<<Wb, Lit(PromoPrefixes), Cls(Digits, 2, 8), Wb>>),
     One(<<Wb, Lit(PromoPrefixes), Cls(AlnumIC, 2, 8), Wb>>),
     One(<<Wb, Star(AlnumIC), Lit(Percentages), Lit(PercentWords),
           Star(AlnumIC), Wb>>),
     One(<<Wb, Lit(Seasons), Cls(AlnumIC, 2, 8), Wb>>),
     One(<<Wb, Cls(AlnumIC, 2, 8), Lit(Seasons), Wb>>),
     One(<<Wb, Lit(ShipWords), Cls(AlnumIC, 2, 8), Wb>>),
     One(<<Wb, Cls(AlnumIC, 2, 8), Lit(ShipWords), Wb>>),
     One(<<Wb, Lit(WelcomeWords), Cls(AlnumIC, 2, 8), Wb>>),
     One(<<Wb, Cls(AlnumIC, 2, 8), Lit(WelcomeWords), Wb>>),
     One(<<Wb, Cls(LettersIC, 2, 4), Cls(Digits, 4, 8), Wb>>),
     One(<<Wb, Cls(Digits, 4, 8), Cls(LettersIC, 2, 4), Wb>>),
     << [parts |-> <<Lit(<<<<"C","O","D","E">>>>), Star({":"} \cup Whitespace),
                     Cls(AlnumIC, 4, 12), End>>, group |-> 3],
        [parts |-> <<Cls(AlnumIC, 4, 12), End>>, group |-> 1] >>,
     << [parts |-> <<Cls(OpenQuotes, 1, 1), Cls(AlnumIC, 4, 12), Cls(CloseQuotes, 1, 1)>>,
         group |-> 2] >>,
     One(<<Wb, Cls(LettersIC, 4, 12), Wb, Ahead(CheckoutWords)>>) >>

\* \b at position i (between s[i-1] and s[i])
IsBoundary(s, i) ==
  (i > 1 /\ s[i - 1] \in WordChars) # (i <= Len(s) /\ s[i] \in WordChars)

\* (?=[\s\.,!]|$) at position i
AtEnd(s, i) == i > Len(s) \/ s[i] \in (Whitespace \cup {".", ",", "!"})

\* (?=.*(?:w1|...)) at position i; the cleaned text holds no line break
LooksAhead(s, i, ws) ==
  \E j \in i..Len(s) : \E a \in 1..Len(ws) : StartsAtIC(s, j, ws[a])

RECURSIVE RunLength(_, _, _, _)
\* how many characters of S follow position i, at most hi
RunLength(s, i, S, hi) ==
  IF hi = 0 \/ i > Len(s) \/ s[i] \notin S THEN 0
  ELSE 1 + RunLength(s, i + 1, S, hi - 1)

RECURSIVE MatchParts(_, _, _, _)
RECURSIVE TryAlts(_, _, _, _, _)
RECURSIVE TryReps(_, _, _, _, _)

\* part k matched s[i..j-1]: the rest of the parts must match from j
Continue(s, i, j, parts, k) ==
  LET r == MatchParts(s, j, parts, k + 1)
  IN  IF r = <<>> THEN <<>> ELSE <<i>> \o r

\* the literals of part k from the a-th on, in order
TryAlts(s, i, parts, k, a) ==
  IF a > Len(parts[k].alts) THEN <<>>
  ELSE LET w == parts[k].alts[a]
           r == IF StartsAtIC(s, i, w) THEN Continue(s, i, i + Len(w), parts, k)
                ELSE <<>>
       IN  IF r # <<>> THEN r ELSE TryAlts(s, i, parts, k, a + 1)

\* n repetitions of the class of part k, then fewer (greedy, backtracking)
TryReps(s, i, parts, k, n) ==
  IF n < parts[k].lo THEN <<>>
  ELSE LET r == Continue(s, i, i + n, parts, k)
       IN  IF r # <<>> THEN r ELSE TryReps(s, i, parts, k, n - 1)

\* match parts[k..] at position i: the positions where each part starts and
\* where the match ends, or <<>> when there is no match
MatchParts(s, i, parts, k) ==
  IF k > Len(parts) THEN <<i>>
  ELSE LET p == parts[k]
       IN  CASE p.t = "wb" ->
                  IF IsBoundary(s, i) THEN Continue(s, i, i, parts, k) ELSE <<>>
             [] p.t = "end" ->
                  IF AtEnd(s, i) THEN Continue(s, i, i, parts, k) ELSE <<>>
             [] p.t = "ahead" ->
                  IF LooksAhead(s, i, p.alts) THEN Continue(s, i, i, parts, k)
                  ELSE <<>>
             [] p.t = "lit" -> TryAlts(s, i, parts, k, 1)
             [] p.t = "cls" ->
                  TryReps(s, i, parts, k, RunLength(s, i, p.set, p.hi))

NoMatch == [start |-> 0, end |-> 0, code |-> <<>>]

RECURSIVE MatchAt(_, _, _, _)
\* pattern.match at position pos: the alternatives from the a-th on
MatchAt(s, pat, pos, a) ==
  IF a > Len(pat) THEN NoMatch
  ELSE LET r == MatchParts(s, pos, pat[a].parts, 1)
           g == pat[a].group
       IN  IF r = <<>> THEN MatchAt(s, pat, pos, a + 1)
           ELSE [start |-> pos, end |-> r[Len(r)],
                 \* match.group(1) if match.groups() else match.group(0)
                 code |-> IF g = 0 THEN SubSeq(s, pos, r[Len(r)] - 1)
                          ELSE SubSeq(s, r[g], r[g + 1] - 1)]

RECURSIVE FindIterFrom(_, _, _)
\* pattern.finditer(s): leftmost matches, not overlapping
FindIterFrom(s, pat, pos) ==
  IF pos > Len(s) + 1 THEN <<>>
  ELSE LET m == MatchAt(s, pat, pos, 1)
       IN  IF m = NoMatch THEN FindIterFrom(s, pat, pos + 1)
           ELSE <<m>> \o FindIterFrom(s, pat,
                                      IF m.end > pos THEN m.end ELSE pos + 1)

finditer(s, pat) == FindIterFrom(s, pat, 1)

----------------------------------------------------------------------------
(* Extraction and scoring *)

\* str.isdigit()
isdigit(code) == code # <<>> /\ \A i \in 1..Len(code) : code[i] \in Digits

\* str.isalpha()
isalpha(code) == code # <<>> /\ \A i \in 1..Len(code) : code[i] \in LettersIC

\* re.match(r'^[A-Z0-9]+$', code)
IsCapsAlnum(code) == code # <<>> /\ \A i \in 1..Len(code) : code[i] \in AlnumUpper

PromoWords == <<<<"S","A","V","E">>, <<"G","E","T">>, <<"O","F","F">>, <<"F","R","E","E">>, <<"P","R","O","M","O">>>>

\* re.search(r'\d{2}(?:OFF|PERCENT)', code)
HasPercentage(code) ==
  \E i \in 1..Len(code) :
     /\ i + 1 <= Len(code)
     /\ code[i] \in Digits
     /\ code[i + 1] \in Digits
     /\ \/ StartsAt(code, i + 2, <<"O","F","F">>)
        \/ StartsAt(code, i + 2, <<"P","E","R","C","E","N","T">>)

context_keywords ==
  <<<<"u","s","e"," ","c","o","d","e">>, <<"e","n","t","e","r"," ","c","o","d","e">>, <<"p","r","o","m","o"," ","c","o","d","e">>, <<"d","i","s","c","o","u","n","t"," ","c","o","d","e">>, <<"c","h","e","c","k","o","u","t">>>>

RECURSIVE ContextBonus(_, _, _)
\* the loop over context_keywords: +0.1 for each one found, from the k-th on
ContextBonus(confidence, clean, k) ==
  IF k > Len(context_keywords) THEN confidence
  ELSE ContextBonus(IF Contains(clean, upper(context_keywords[k]))
                    THEN FAdd(confidence, F0_1) ELSE confidence,
                    clean, k + 1)

\* if applies: confidence += amount
Bonus(confidence, applies, amount) ==
  IF applies THEN FAdd(confidence, amount) ELSE confidence

\* the length bonus: 0.1 for 6..10 characters, else 0.05 for 4..12
LengthBonus(confidence, n) ==
  IF 6 <= n /\ n <= 10 THEN FAdd(confidence, F0_1)
  ELSE IF 4 <= n /\ n <= 12 THEN FAdd(confidence, F0_05)
  ELSE confidence

\* 0.5 + min(len(keywords_found) * 0.1, 0.3)
KeywordBonus(keywords_found) ==
  FAdd(F0_5, FMin(FMulInt(Len(keywords_found), F0_1), F0_3))

\* the sum calculate_confidence builds, before the final min
ConfidenceSum(code, original_text, clean) ==
  LengthBonus(
    ContextBonus(
      Bonus(
        Bonus(
          Bonus(KeywordBonus(extract_keywords(original_text)),
                IsCapsAlnum(code), F0_1),
          \E w \in 1..Len(PromoWords) : Contains(code, PromoWords[w]),
          F0_15),
        HasPercentage(code), F0_2),
      clean, 1),
    Len(code))

\* mutant: the final min(confidence, 1.0) is left out
calculate_confidence_unclamped(code, original_text, clean) ==
  ConfidenceSum(code, original_text, clean)

\* CouponDetector.calculate_confidence
calculate_confidence(code, original_text, clean) ==
  FMin(ConfidenceSum(code, original_text, clean), F1_0)

\* mutant: the false-positive test is left out
Survives_without_lexicon(code) ==
  /\ ~(Len(code) < 4 \/ Len(code) > 15)
  /\ ~((isdigit(code) \/ isalpha(code)) /\ Len(code) < 6)

\* mutant: the lower length limit is 5
Survives_min_five(code) ==
  /\ code \notin false_positives
  /\ ~(Len(code) < 5 \/ Len(code) > 15)
  /\ ~((isdigit(code) \/ isalpha(code)) /\ Len(code) < 6)

\* mutant: the test on codes of digits only or letters only is left out
Survives_without_single_type(code) ==
  /\ code \notin false_positives
  /\ ~(Len(code) < 4 \/ Len(code) > 15)

\* the three "continue" tests of extract_coupon_codes
Survives(code) ==
  /\ code \notin false_positives
  /\ ~(Len(code) < 4 \/ Len(code) > 15)
  /\ ~((isdigit(code) \/ isalpha(code)) /\ Len(code) < 6)

Max(a, b) == IF a >= b THEN a ELSE b

Min(a, b) == IF a <= b THEN a ELSE b

\* mutant: the context is the whole cleaned text
ContextOf_whole_text(clean, m) == Strip(clean)

\* clean_text[max(0, start - 20):min(len, end + 20)].strip()
ContextOf(clean, m) ==
  Strip(SubSeq(clean, Max(1, m.start - 20), Min(Len(clean), m.end - 1 + 20)))

RECURSIVE CandidatesOf(_, _, _, _)
\* the (code, confidence, context) tuples appended for the matches ms[j..]
CandidatesOf(text, clean, ms, j) ==
  IF j > Len(ms) THEN <<>>
  ELSE LET code == ms[j].code
           rest == CandidatesOf(text, clean, ms, j + 1)
       IN  IF Survives(code)
           THEN << [code |-> code,
                    confidence |-> calculate_confidence(code, text, clean),
                    context |-> ContextOf(clean, ms[j])] >> \o rest
           ELSE rest

\* pattern.finditer(clean_text) for every compiled pattern, in table order
AllMatches(clean) ==
  [p \in 1..Len(coupon_patterns) |-> finditer(clean, coupon_patterns[p])]

RECURSIVE ScanPatterns(_, _, _, _)
\* the list "codes" of extract_coupon_codes: patterns p.. in table order,
\* matches[p] being the matches of pattern p
ScanPatterns(text, clean, matches, p) ==
  IF p > Len(coupon_patterns) THEN <<>>
  ELSE CandidatesOf(text, clean, matches[p], 1)
       \o ScanPatterns(text, clean, matches, p + 1)

----------------------------------------------------------------------------
(* The argument texts the callers draw from: concatenations of fragments *)

\* how many fragments a text argument is made of, per method
MaxCleanFrags == 3

MaxExtractFrags == 2

MaxFieldFrags == 2

MaxScoreFrags == 2

MaxPromoFrags == 2

\* how many entries the list given to get_detection_stats has
MaxStatsLen == 3

CleanFrags == <<<<" ">>, <<"a">>, <<"&","a","m","p",";">>, <<"a","m","p",";">>, <<"&","n","b","s","p",";">>, <<"&","l","t",";">>, <<" ","b">>>>

ExtractFrags ==
  <<<<"A","1","B","2">>,
    <<"A","1","B","2",".">>,
    <<"A","1","B","2","?">>,
    <<"A","B","1">>,
    <<"A","B","C","D","E","F","G","H","1","2","3","4","5">>,
    <<"M","O","N","D","A","Y">>,
    <<"S","A","V","E","2","5">>,
    <<"1","2","3","4","5">>,
    <<" ","s","h","o","p"," ","n","o","w"," ","a","n","d"," ","p","a","y"," ","l","e","s","s"," ">>,
    <<"c","o","d","e",":">>>>

FieldFrags ==
  <<<<"A","1","B","2"," ">>, <<"X","9","Y","8"," ">>,
    <<"c","o","d","e"," ","S","A","V","E","2","5"," ">>>>

ScoreFrags == <<<<"u","s","e"," ","c","o","d","e"," ">>, <<"p","r","o","m","o"," ","c","o","d","e"," ">>, <<"c","h","e","c","k","o","u","t"," ">>, <<"s","a","l","e"," ">>, <<"x">>>>

ScoreCodes ==
  {<<"S","A","V","E","2","5","O","F","F">>, <<"A","1","B","2">>, <<"a","b">>,
   <<"G","E","T","5","0","P","E","R","C","E","N","T","O","F","F","1">>,
   <<"A","B","C","D","E","F","G","H","1","2","3","4","5">>}

Senders == {<<>>, <<"a","@","b",".","c">>}

PromoFrags ==
  <<<<"M","A","R",KelvinSign,"D","O","W","N"," ">>,
    <<"F","l","a","s","h"," ","S","a","l","e"," ">>,
    <<"H","e","l","l","o"," ">>>>

\* str.lower() on one character
ToLower(c) ==
  IF c \in UpperLetters THEN LowerSeq[CHOOSE i \in 1..26 : UpperSeq[i] = c]
  ELSE IF c = KelvinSign THEN "k"
  ELSE c

\* str.lower()
lower(s) == [i \in 1..Len(s) |-> ToLower(s[i])]

\* str.swapcase()
swapcase(s) ==
  [i \in 1..Len(s) |-> IF s[i] \in LowerLetters THEN ToUpper(s[i]) ELSE ToLower(s[i])]

\* the ways a caller changes the case of a text
CaseChanges == {"lower", "upper", "swapcase"}

Recase(change, s) ==
  IF change = "lower" THEN lower(s)
  ELSE IF change = "upper" THEN upper(s)
  ELSE swapcase(s)

\* U+1F389 PARTY POPPER, a character that is no letter, digit or white space
PartyPopper == "U+1F389"

\* the email of examples/sample_usage.py
ExampleSubject ==
  <<PartyPopper>> \o
  <<" ","E","x","c","l","u","s","i","v","e"," ","2","5","%"," ","O","F","F"," ","-"," ","U","s","e"," ","C","o","d","e"," ","S","A","V","E","2","5","N","O","W">>

ExampleSender ==
  <<"d","e","a","l","s","@","f","a","s","h","i","o","n","s","t","o","r","e",".","c","o","m">>

RECURSIVE TextsOf(_, _)
\* the texts made of at most n fragments
TextsOf(frags, n) ==
  IF n = 0 THEN {<<>>}
  ELSE LET shorter == TextsOf(frags, n - 1)
       IN  shorter \cup { t \o frags[i] : t \in shorter, i \in 1..Len(frags) }

CleanTexts == TextsOf(CleanFrags, MaxCleanFrags)

ExtractTexts == TextsOf(ExtractFrags, MaxExtractFrags)

FieldTexts == TextsOf(FieldFrags, MaxFieldFrags)

\* the field texts of fewer fragments
ShortFieldTexts == TextsOf(FieldFrags, MaxFieldFrags - 1)

ScoreTexts == TextsOf(ScoreFrags, MaxScoreFrags)

PromoTexts == TextsOf(PromoFrags, MaxPromoFrags)

\* the values datetime.now() takes: the time of a first call, and the
\* times of a call after it
FirstTime == <<"t","1">>

Times == {FirstTime, <<"t","2">>}

\* a CouponCode object with a confidence of n twentieths
Coupon(code, n, keywords_found) ==
  [code |-> code, confidence |-> Twentieths(n), context |-> code,
   email_subject |-> code, source |-> <<"a","@","b",".","c">>,
   detected_at |-> FirstTime, keywords_found |-> keywords_found]

\* the entries the lists given to get_detection_stats are made of
StatsFrags ==
  << <<Coupon(<<"A","1","B","2">>, 13, <<<<"s","a","l","e">>>>)>>,
     <<Coupon(<<"X","9","Y","8","Z","7">>, 14, <<<<"s","a","l","e">>, <<"c","o","d","e">>>>)>>,
     <<Coupon(<<"Q","W","1","2">>, 17, <<<<"c","o","d","e">>, <<"u","s","e"," ","c","o","d","e">>>>)>>,
     <<Coupon(<<"S","A","V","E","2","5","N","O","W">>, 20, <<<<"s","a","v","e">>, <<"c","o","d","e">>, <<"u","s","e"," ","c","o","d","e">>>>)>> >>

StatsLists == TextsOf(StatsFrags, MaxStatsLen)

\* the texts that take the place of a field in a second call on an email
OtherTexts == {<<>>, <<"s","a","l","e"," ">>, FieldFrags[3]}

\* the texts of the emails the server's tools are called on
ToolTexts ==
  {<<"A","1","B","2">>, <<"s","a","l","e"," ","X","9","Y","8","Z","7">>,
   <<"H","e","l","l","o"," ">>}

\* emails of which the subject, the body or the sender is absent
AbsentEmails ==
  ({Absent} \X FieldTexts \X {<<>>})
    \cup (FieldTexts \X {Absent} \X {<<>>})
    \cup (FieldTexts \X {FieldFrags[3]} \X {Absent})
    \cup {<<Absent, Absent, Absent>>}

\* codes that begin with the Kelvin sign, of 5 and of 13 characters
KelvinCodes ==
  {<<KelvinSign,"1","2","3","4">>,
   <<KelvinSign,"1","2","3","4","5","6","7","8","9","0","1","2">>}

\* emails with such a code as subject
KelvinEmails == KelvinCodes \X OtherTexts \X {<<>>}

\* the (subject, body, sender) arguments of detect_coupons_in_email
Emails ==
  (FieldTexts \X FieldTexts \X Senders)
    \cup ({ExampleSubject} \X FieldTexts \X {ExampleSender})
    \cup AbsentEmails
    \cup KelvinEmails

----------------------------------------------------------------------------
(* Extraction, continued *)

\* the matches on each text that is scanned as a whole, computed once
Matched ==
  [t \in ExtractTexts \cup FieldTexts \cup OtherTexts \cup ToolTexts
          \cup {ExampleSubject} |->
     AllMatches(clean_text(t))]

\* the matches of every pattern on the cleaned text of text
MatchesOf(text) ==
  IF text \in DOMAIN Matched THEN Matched[text]
  ELSE AllMatches(clean_text(text))

\* the list "codes" on each of these texts
Scanned ==
  [t \in DOMAIN Matched |-> ScanPatterns(t, clean_text(t), Matched[t], 1)]

\* the list "codes" of extract_coupon_codes(text)
Candidates(text) ==
  IF text \in DOMAIN Scanned THEN Scanned[text]
  ELSE ScanPatterns(text, clean_text(text), MatchesOf(text), 1)

\* mutant: every tuple is kept
PutUnique_keep_all(unique, c) == Append(unique, c)

\* unique_codes[code] = (conf, ctx) on a dict kept as a list in insertion order
PutUnique(unique, c) ==
  IF \E i \in 1..Len(unique) : unique[i].code = c.code
  THEN LET i == CHOOSE i \in 1..Len(unique) : unique[i].code = c.code
       IN  IF FLess(unique[i].confidence, c.confidence)
           THEN [unique EXCEPT ![i] = c]
           ELSE unique
  ELSE Append(unique, c)

RECURSIVE Dedup(_, _, _)
\* the loop that fills unique_codes, from codes[j] on
Dedup(codes, j, unique) ==
  IF j > Len(codes) THEN unique
  ELSE Dedup(codes, j + 1, PutUnique(unique, codes[j]))

\* CouponDetector.extract_coupon_codes
extract_coupon_codes(text) == Dedup(Candidates(text), 1, <<>>)

RECURSIVE SortDesc_unstable(_)
\* mutant: an entry goes in front of the entries of equal confidence
SortDesc_unstable(cs) ==
  IF cs = <<>> THEN <<>>
  ELSE LET n == Len(cs)
           sorted == SortDesc_unstable(SubSeq(cs, 1, n - 1))
           x == cs[n]
           k == Cardinality({ i \in 1..Len(sorted) :
                               FLess(x.confidence, sorted[i].confidence) })
       IN  SubSeq(sorted, 1, k) \o <<x>> \o SubSeq(sorted, k + 1, Len(sorted))

RECURSIVE SortDesc(_)
\* list.sort(key=confidence, reverse=True): stable
SortDesc(cs) ==
  IF cs = <<>> THEN <<>>
  ELSE LET n == Len(cs)
           sorted == SortDesc(SubSeq(cs, 1, n - 1))
           x == cs[n]
           \* x goes behind every entry that is not smaller
           k == Cardinality({ i \in 1..Len(sorted) :
                               ~FLess(sorted[i].confidence, x.confidence) })
       IN  SubSeq(sorted, 1, k) \o <<x>> \o SubSeq(sorted, k + 1, Len(sorted))

Unknown == <<"U","n","k","n","o","w","n">>

\* the CouponCode objects built from the (code, confidence, context) tuples
Wrap(cs, subject, sender, keywords_found) ==
  [i \in 1..Len(cs) |->
     [code |-> cs[i].code, confidence |-> cs[i].confidence,
      context |-> cs[i].context, email_subject |-> subject,
      source |-> IF Truthy(sender) THEN sender ELSE Unknown,
      keywords_found |-> keywords_found]]

\* mutant: the clock is read into the context as well
Stamp_into_context(cs, now) ==
  [i \in 1..Len(cs) |->
     [code |-> cs[i].code, confidence |-> cs[i].confidence,
      context |-> now, email_subject |-> cs[i].email_subject,
      source |-> cs[i].source, detected_at |-> now,
      keywords_found |-> cs[i].keywords_found]]

\* detected_at=datetime.now(): the entries of a call carry the time at which
\* the call ran
Stamp(cs, now) ==
  [i \in 1..Len(cs) |->
     [code |-> cs[i].code, confidence |-> cs[i].confidence,
      context |-> cs[i].context, email_subject |-> cs[i].email_subject,
      source |-> cs[i].source, detected_at |-> now,
      keywords_found |-> cs[i].keywords_found]]

\* mutant: the keyword gate is left out
detect_ungated(subject, body, sender) ==
  LET all_text == AllText(subject, body)
      keywords_found == extract_keywords(all_text)
  IN  SortDesc(Wrap(extract_coupon_codes(subject) \o extract_coupon_codes(body),
                    subject, sender, keywords_found))

\* mutant: the two per-field lists are merged by code
detect_merged(subject, body, sender) ==
  LET all_text == AllText(subject, body)
      keywords_found == extract_keywords(all_text)
  IN  IF keywords_found = <<>> THEN <<>>
      ELSE SortDesc(Wrap(Dedup(extract_coupon_codes(subject)
                                 \o extract_coupon_codes(body), 1, <<>>),
                         subject, sender, keywords_found))

\* mutant: the subject is not scanned for codes
detect_body_only(subject, body, sender) ==
  LET all_text == AllText(subject, body)
      keywords_found == extract_keywords(all_text)
  IN  IF keywords_found = <<>> THEN <<>>
      ELSE SortDesc(Wrap(extract_coupon_codes(body),
                         subject, sender, keywords_found))

\* mutant: the codes of a field are scored on the text of the whole email
detect_scored_on_email(subject, body, sender) ==
  LET all_text == AllText(subject, body)
      keywords_found == extract_keywords(all_text)
      subject_list ==
        Dedup(ScanPatterns(all_text, clean_text(subject), MatchesOf(subject), 1),
              1, <<>>)
      body_list ==
        Dedup(ScanPatterns(all_text, clean_text(body), MatchesOf(body), 1),
              1, <<>>)
  IN  IF keywords_found = <<>> THEN <<>>
      ELSE SortDesc(Wrap(subject_list \o body_list,
                         subject, sender, keywords_found))

\* CouponDetector.detect_coupons_in_email
detect_coupons_in_email(subject, body, sender) ==
  LET all_text == AllText(subject, body)
      keywords_found == extract_keywords(all_text)
  IN  IF keywords_found = <<>> THEN <<>>
      ELSE SortDesc(Wrap(extract_coupon_codes(subject) \o extract_coupon_codes(body),
                         subject, sender, keywords_found))

\* CouponDetector.is_promotional_email
is_promotional_email(subject, body) ==
  Len(extract_keywords(AllText(subject, body))) > 0

\* sum(c.confidence for c in coupon_codes): the additions from the i-th
\* entry on, total being the sum so far
RECURSIVE SumFrom(_, _, _)
SumFrom(coupon_codes, i, total) ==
  IF i > Len(coupon_codes) THEN total
  ELSE SumFrom(coupon_codes, i + 1, FAdd(total, coupon_codes[i].confidence))

\* the hundredth below q/k if below is TRUE, else the one above
Neighbour(q, k, below) == IF below THEN q \div k ELSE q \div k + 1

\* mutant: the mean is cut off after two decimals
MeanHundredths_cut(total, k) == (5 * total[1]) \div k

\* round(total / k, 2), in hundredths.  total / k is total[1] / (20 * k) up
\* to an error far below a hundredth, so the nearest hundredth is the one
\* nearest to 5 * total[1] / k unless that lies halfway between two; then k
\* is even, and for k = 2 and k = 4 the division is exact: the quotient is
\* below or above the half as total is below or above total[1] / 20, and
\* round() takes a quotient that is the half itself to the even hundredth.
MeanHundredths(total, k) ==
  IF 2 * ((5 * total[1]) % k) # k
  THEN Neighbour(5 * total[1], k, 2 * ((5 * total[1]) % k) < k)
  ELSE IF total[2] # 0
  THEN Neighbour(5 * total[1], k, total[2] < 0)
  ELSE Neighbour(5 * total[1], k, ((5 * total[1]) \div k) % 2 = 0)

\* all_keywords, from the i-th entry on
RECURSIVE AllKeywords(_, _)
AllKeywords(coupon_codes, i) ==
  IF i > Len(coupon_codes) THEN <<>>
  ELSE coupon_codes[i].keywords_found \o AllKeywords(coupon_codes, i + 1)

\* set(all_keywords)
KeywordSet(coupon_codes) ==
  LET all_keywords == AllKeywords(coupon_codes, 1)
  IN  { all_keywords[i] : i \in 1..Len(all_keywords) }

\* list(S): the elements of S, each once, in the order the set yields them
ListsOfSet(S) ==
  { order \in [1..Cardinality(S) -> S] :
      \A i, j \in 1..Cardinality(S) : i # j => order[i] # order[j] }

\* CouponDetector.get_detection_stats; unique_keywords is the list that
\* list(set(all_keywords)) made, and avg_confidence is kept in hundredths
get_detection_stats(coupon_codes, unique_keywords) ==
  IF coupon_codes = <<>>
  THEN [total_codes |-> 0, avg_confidence |-> 0, keywords_found |-> <<>>]
  ELSE [total_codes |-> Len(coupon_codes),
        avg_confidence |->
          MeanHundredths(SumFrom(coupon_codes, 1, F0_0), Len(coupon_codes)),
        keywords_found |-> unique_keywords,
        codes_by_confidence |->
          [i \in 1..Len(coupon_codes) |->
             [code |-> coupon_codes[i].code,
              confidence |-> coupon_codes[i].confidence]]]

\* 0.6 and 0.8 as the doubles the literals denote
F0_6 == Twentieths(12)

F0_8 == Twentieths(16)

\* the entries of coupons with lo <= confidence, and confidence < hi when
\* hi is given (it is F0_0 when it is not)
Between(coupons, lo, hi) ==
  { i \in 1..Len(coupons) :
      /\ ~FLess(coupons[i].confidence, lo)
      /\ hi # F0_0 => FLess(coupons[i].confidence, hi) }

\* _get_recommendation: the message, as its fixed text and the count that
\* is formatted into it
get_recommendation(coupons) ==
  IF coupons = <<>>
  THEN [text |-> "No coupons detected - email may not be promotional",
        count |-> 0]
  ELSE IF Between(coupons, F0_8, F0_0) # {}
  THEN [text |-> "High confidence: {} likely coupon codes detected - recommend saving to coupons folder",
        count |-> Cardinality(Between(coupons, F0_8, F0_0))]
  ELSE IF Between(coupons, F0_5, F0_8) # {}
  THEN [text |-> "Medium confidence: {} possible codes - manual review recommended",
        count |-> Cardinality(Between(coupons, F0_5, F0_8))]
  ELSE [text |-> "Low confidence codes detected - may be false positives",
        count |-> 0]

----------------------------------------------------------------------------
(* The Google Sheets logger (src/src/sheets_integration.py).  A worksheet   *)
(* is the list of its rows, a row the list of its ten cells, a cell a text. *)
(* The spreadsheets live with Google, by title; a logger holds references   *)
(* to them.                                                                 *)

\* the header row create_or_get_sheet appends to a new worksheet
headers ==
  <<<<"D","a","t","e"," ","D","e","t","e","c","t","e","d">>, <<"C","o","u","p","o","n"," ","C","o","d","e">>,
    <<"C","o","n","f","i","d","e","n","c","e">>, <<"E","m","a","i","l"," ","S","u","b","j","e","c","t">>,
    <<"S","e","n","d","e","r">>, <<"C","o","n","t","e","x","t">>, <<"K","e","y","w","o","r","d","s"," ","F","o","u","n","d">>,
    <<"S","t","a","t","u","s">>, <<"U","s","e","d"," ","D","a","t","e">>, <<"N","o","t","e","s">>>>

\* row_data[1] is the Coupon Code cell, row[7] the status cell: the columns,
\* counted from 1 as gspread counts them
CodeColumn == 2

ConfidenceColumn == 3

StatusColumn == 8

UsedDateColumn == 9

NotesColumn == 10

\* no object: the value None of an attribute or of the global
NoObject == <<>>

\* sheets_logger = None
NoLogger ==
  [object |-> "None", sheet_name |-> NoObject, gc |-> FALSE,
   sheet |-> NoObject, worksheet |-> NoObject]

\* bool(sheets_logger): an object without __bool__ and __len__ is true
IsLogger(logger) == logger.object # "None"

\* the default title
CouponTracker == <<"C","o","u","p","o","n"," ","T","r","a","c","k","e","r">>

\* the credentials a caller passes: the JSON of a service account, a text
\* that is no JSON, and the empty text
GoodCredentials == <<"{","\"","t","y","p","e","\"",":"," ","\"","s","e","r","v","i","c","e","_","a","c","c","o","u","n","t","\"","}">>

BadCredentials == <<"n","o","t"," ","j","s","o","n">>

\* SheetsLogger.setup_credentials: TRUE when json.loads and
\* gspread.authorize go through, FALSE when one of them raises
setup_credentials(credentials_json) == credentials_json = GoodCredentials

\* SheetsLogger.__init__
SheetsLogger(credentials_json, sheet_name) ==
  [object |-> "SheetsLogger", sheet_name |-> sheet_name,
   gc |-> IF Truthy(credentials_json)
          THEN setup_credentials(credentials_json) ELSE FALSE,
   sheet |-> NoObject, worksheet |-> NoObject]

\* what a call to the Sheets API does: it goes through, or it raises
ApiOutcomes == {"ok", "APIError"}

\* SheetsLogger.create_or_get_sheet: the logger after the call and the value
\* returned.  api is the outcome of opening or creating the spreadsheet; the
\* worksheet is referred to by the title of its spreadsheet.
create_or_get_sheet(logger, api) ==
  IF ~logger.gc THEN [logger |-> logger, ok |-> FALSE]
  ELSE IF api # "ok" THEN [logger |-> logger, ok |-> FALSE]
  ELSE [logger |-> [logger EXCEPT !.sheet = logger.sheet_name,
                                  !.worksheet = logger.sheet_name],
        ok |-> TRUE]

\* the worksheet "Coupons" of a spreadsheet after create_or_get_sheet went
\* through: a new one gets the header row; rows is <<>> when there was none
OpenedWorksheet(rows) == IF rows = <<>> THEN <<headers>> ELSE rows

\* the values datetime.now() takes in the server: a date and a time of day
Clock ==
  {[date |-> <<"2","0","2","4","-","0","6","-","0","1">>,
    time |-> <<"0","9",":","0","0",":","0","0">>]}

\* strftime("%Y-%m-%d %H:%M:%S")
strftime_seconds(now) == now.date \o <<" ">> \o now.time

\* strftime("%Y-%m-%d")
strftime_date(now) == now.date

DigitSeq == <<"0","1","2","3","4","5","6","7","8","9">>

\* str(x) for the double nearest to n twentieths: the shortest decimal that
\* reads back as x
DecimalOf(n) ==
  LET h == 5 * n
  IN  <<DigitSeq[h \div 100 + 1], ".", DigitSeq[(h % 100) \div 10 + 1]>>
        \o (IF h % 10 = 0 THEN <<>> ELSE <<DigitSeq[(h % 10) + 1]>>)

\* str(x) for the doubles next to one of these that the scoring produces
InexactTexts ==
  (<<16, -1536>> :> <<"0",".","7","9","9","9","9","9","9","9","9","9","9","9","9","9","9","9">>)
    @@ (<<20, -2560>> :> <<"0",".","9","9","9","9","9","9","9","9","9","9","9","9","9","9","9","9">>)

\* str(coupon.confidence)
str_float(x) ==
  IF x \in DOMAIN InexactTexts THEN InexactTexts[x] ELSE DecimalOf(x[1])

\* the doubles whose text is known
KnownDoubles == { Twentieths(n) : n \in 1..20 } \cup DOMAIN InexactTexts

\* float(cell) succeeds
IsFloatText(cell) == \E x \in KnownDoubles : str_float(x) = cell

\* float(cell)
float(cell) == CHOOSE x \in KnownDoubles : str_float(x) = cell

RECURSIVE Join(_, _)
\* ", ".join(ws), from the i-th text on
Join(ws, i) ==
  IF i > Len(ws) THEN <<>>
  ELSE IF i = Len(ws) THEN ws[i]
  ELSE ws[i] \o <<",", " ">> \o Join(ws, i + 1)

New == <<"N","e","w">>

\* SheetsLogger.log_coupon: row_data
row_data(coupon, status) ==
  <<strftime_seconds(coupon.detected_at), coupon.code,
    str_float(coupon.confidence), coupon.email_subject, coupon.source,
    coupon.context, Join(coupon.keywords_found, 1), status, <<>>, <<>>>>

RECURSIVE log_multiple_coupons(_, _, _, _, _)
\* SheetsLogger.log_multiple_coupons from the i-th coupon on: the rows of
\* the worksheet and the counts afterwards.  has_worksheet: self.worksheet is
\* set; api: whether append_row goes through.
log_multiple_coupons(rows, coupons, i, has_worksheet, api) ==
  IF i > Len(coupons) THEN [rows |-> rows, success |-> 0, failed |-> 0]
  ELSE IF has_worksheet /\ api = "ok"
  THEN LET rest == log_multiple_coupons(Append(rows, row_data(coupons[i], New)),
                                        coupons, i + 1, has_worksheet, api)
       IN  [rest EXCEPT !.success = @ + 1]
  ELSE LET rest == log_multiple_coupons(rows, coupons, i + 1, has_worksheet, api)
       IN  [rest EXCEPT !.failed = @ + 1]

\* worksheet.col_values(col)
col_values(rows, col) == [r \in 1..Len(rows) |-> rows[r][col]]

\* SheetsLogger.get_existing_coupons
get_existing_coupons(rows, has_worksheet) ==
  IF ~has_worksheet THEN <<>>
  ELSE LET values == col_values(rows, CodeColumn)
       IN  IF Len(values) > 1 THEN SubSeq(values, 2, Len(values)) ELSE <<>>

NoCell == [row |-> 0, col |-> 0]

\* worksheet.find(query): the first cell, row by row, whose value is query
find(rows, query) ==
  LET hits == { rc \in (1..Len(rows)) \X (1..Len(headers)) :
                   rows[rc[1]][rc[2]] = query }
  IN  IF hits = {} THEN NoCell
      ELSE LET first == CHOOSE rc \in hits : \A other \in hits :
                           \/ rc[1] < other[1]
                           \/ (rc[1] = other[1] /\ rc[2] <= other[2])
           IN  [row |-> first[1], col |-> first[2]]

\* worksheet.update_cell(row, col, value)
update_cell(rows, row, col, value) == [rows EXCEPT ![row][col] = value]

\* mutant: the used date is written whenever the status is
update_always_dated(rows, coupon_code, status, used_date, notes) ==
  LET cell == find(rows, coupon_code)
  IN  IF cell = NoCell THEN [rows |-> rows, ok |-> FALSE]
      ELSE LET r1 == update_cell(rows, cell.row, StatusColumn, status)
               r2 == update_cell(r1, cell.row, UsedDateColumn, used_date)
               r3 == IF Truthy(notes)
                     THEN update_cell(r2, cell.row, NotesColumn, notes) ELSE r2
           IN  [rows |-> r3, ok |-> TRUE]

\* SheetsLogger.update_coupon_status on a logger that has its worksheet
update_status_cells(rows, coupon_code, status, used_date, notes) ==
  LET cell == find(rows, coupon_code)
  IN  IF cell = NoCell THEN [rows |-> rows, ok |-> FALSE]
      ELSE LET r1 == update_cell(rows, cell.row, StatusColumn, status)
               r2 == IF Truthy(used_date)
                     THEN update_cell(r1, cell.row, UsedDateColumn, used_date)
                     ELSE r1
               r3 == IF Truthy(notes)
                     THEN update_cell(r2, cell.row, NotesColumn, notes) ELSE r2
           IN  [rows |-> r3, ok |-> TRUE]

\* SheetsLogger.get_coupon_statistics: status_breakdown of the data rows
status_breakdown(data) ==
  LET status_of(row) ==
        IF Truthy(row[StatusColumn]) THEN row[StatusColumn] ELSE Unknown
      seen == { status_of(data[r]) : r \in 1..Len(data) }
  IN  [st \in seen |->
         Cardinality({ r \in 1..Len(data) : status_of(data[r]) = st })]

\* the rows of data whose confidence cell float() accepts, as coupons
Parsed(data) ==
  LET F[r \in 0..Len(data)] ==
        IF r = 0 THEN <<>>
        ELSE IF IsFloatText(data[r][ConfidenceColumn])
        THEN Append(F[r - 1], [confidence |-> float(data[r][ConfidenceColumn])])
        ELSE F[r - 1]
  IN  F[Len(data)]

\* SheetsLogger.get_sheet_url: the address of the spreadsheet a logger holds
get_sheet_url(logger) ==
  IF logger.sheet # NoObject
  THEN <<"h","t","t","p","s",":","/","/">> \o logger.sheet
  ELSE NoObject

\* SheetsLogger.get_coupon_statistics on a logger that has its worksheet;
\* average_confidence is kept in hundredths
sheet_statistics(rows, sheet_url) ==
  IF Len(rows) <= 1 THEN [total_coupons |-> 0, status_breakdown |-> <<>>]
  ELSE LET data == SubSeq(rows, 2, Len(rows))
           parsed == Parsed(data)
       IN  [total_coupons |-> Len(data),
            status_breakdown |-> status_breakdown(data),
            average_confidence |->
              IF Len(parsed) > 0
              THEN MeanHundredths(SumFrom(parsed, 1, F0_0), Len(parsed))
              ELSE 0,
            sheet_url |-> sheet_url]

----------------------------------------------------------------------------
(* The server (src/src/server.py): the tools, as calls on the global       *)
(* sheets_logger and on the spreadsheets it refers to.                     *)

\* the titles a caller passes to setup_sheets_integration
SheetNames == {CouponTracker}

\* how many rows, header included, a worksheet is let grow to
MaxSheetRows == 3

\* the largest index a caller passes to demo_coupon_detection_workflow; the
\* smallest is as far below the list's first index as this is above its last
MaxDemoIndex == 6

DemoIndexes == (0 - MaxDemoIndex - 1)..MaxDemoIndex

\* the emails the tools are called on: a subject that is itself a code, with
\* a code and a keyword in the body; the same code in subject and body; a
\* keyword and no code; neither
ToolEmails ==
  {<<<<"A","1","B","2">>, <<"s","a","l","e"," ","X","9","Y","8","Z","7">>, <<"a","@","b",".","c">>>>,
   <<FieldFrags[3], FieldFrags[3], <<>>>>,
   <<<<"s","a","l","e"," ">>, <<>>, <<>>>>,
   <<<<"H","e","l","l","o"," ">>, <<>>, <<>>>>}

\* coupon_detector.detect_coupons_in_email on each of them, computed once
Detected ==
  [e \in ToolEmails |-> detect_coupons_in_email(e[1], e[2], e[3])]

\* coupon_detector.extract_keywords on subject and body of each of them
KeywordsOf ==
  [e \in ToolEmails |-> extract_keywords(AllText(e[1], e[2]))]

\* the arguments of update_coupon_status: codes that were logged, the title
\* of a column, and a code that was never logged
UpdateCodes ==
  {<<"X","9","Y","8","Z","7">>, <<"A","1","B","2">>, headers[StatusColumn],
   <<"N","O","P","E","1","2">>}

Used == <<"U","s","e","d">>

Statuses == {Used, <<"e","x","p","i","r","e","d">>}

NotesTexts == {<<>>, <<"o","k">>}

NotConfigured ==
  "Google Sheets not configured. Run setup_sheets_integration first."

\* create_demo_promotional_emails: the list demo_emails.  The bodies, of
\* some 500 characters each, are not kept: the detector is not run on them
\* here.
demo_emails ==
  <<[subject |->
       <<"U+1F389"," ","E","x","c","l","u","s","i","v","e"," ","2","5","%",
       " ","O","F","F"," ","-"," ","U","s","e"," ","C","o","d","e"," ","S",
       "A","V","E","2","5","N","O","W">>,
     sender |->
       <<"d","e","a","l","s","@","f","a","s","h","i","o","n","s","t","o",
       "r","e",".","c","o","m">>,
     expected_codes |->
       <<<<"S","A","V","E","2","5","N","O","W">>>>],
    [subject |->
       <<"F","r","e","e"," ","S","h","i","p","p","i","n","g"," ","W","e",
       "e","k","e","n","d"," ","+"," ","S","p","e","c","i","a","l"," ","D",
       "i","s","c","o","u","n","t"," ","I","n","s","i","d","e","!">>,
     sender |->
       <<"n","o","t","i","f","i","c","a","t","i","o","n","s","@","t","e",
       "c","h","d","e","a","l","s",".","c","o","m">>,
     expected_codes |->
       <<<<"T","E","C","H","1","5","O","F","F">>,
         <<"F","R","E","E","S","H","I","P","2","0","2","4">>>>],
    [subject |->
       <<"Y","o","u","r"," ","V","I","P"," ","C","o","d","e",":"," ","W",
       "E","L","C","O","M","E","2","0"," ","-"," ","N","e","w"," ","C","u",
       "s","t","o","m","e","r"," ","S","p","e","c","i","a","l">>,
     sender |->
       <<"h","e","l","l","o","@","b","e","a","u","t","y","b","o","x",".",
       "c","o","m">>,
     expected_codes |->
       <<<<"W","E","L","C","O","M","E","2","0">>>>],
    [subject |->
       <<"U+26A1"," ","F","L","A","S","H"," ","S","A","L","E",":"," ","4",
       "0","%"," ","O","F","F"," ","E","v","e","r","y","t","h","i","n","g",
       " ","-"," ","C","o","d","e"," ","F","L","A","S","H","4","0">>,
     sender |->
       <<"s","a","l","e","s","@","s","p","o","r","t","s","g","e","a","r",
       ".","c","o","m">>,
     expected_codes |->
       <<<<"F","L","A","S","H","4","0">>>>],
    [subject |->
       <<"B","l","a","c","k"," ","F","r","i","d","a","y"," ","E","a","r",
       "l","y"," ","A","c","c","e","s","s"," ","-"," ","M","u","l","t","i",
       "p","l","e"," ","C","o","d","e","s"," ","I","n","s","i","d","e",
       "!">>,
     sender |->
       <<"e","a","r","l","y","a","c","c","e","s","s","@","m","e","g","a",
       "s","t","o","r","e",".","c","o","m">>,
     expected_codes |->
       <<<<"B","L","A","C","K","F","R","I","D","A","Y","3","0">>,
         <<"C","Y","B","E","R","5","0">>,
         <<"H","O","L","I","D","A","Y","2","5">>,
         <<"F","R","E","E","S","H","I","P","9","9">>>>]>>

\* list[i] with Python's index i: the position counted from 1, or 0 when
\* the index is out of range (IndexError)
ListIndex(n, i) ==
  IF 0 <= i /\ i < n THEN i + 1
  ELSE IF 0 - n <= i /\ i < 0 THEN n + i + 1
  ELSE 0

\* detect_coupons_in_email (the tool): the dictionary returned for the list
\* the detector returned
detection_result(detected_coupons, unique_keywords, now) ==
  LET stats == get_detection_stats(detected_coupons, unique_keywords)
  IN  [is_promotional |-> Len(detected_coupons) > 0,
       coupons_found |->
         [i \in 1..Len(detected_coupons) |->
            [code |-> detected_coupons[i].code,
             confidence |-> detected_coupons[i].confidence,
             context |-> detected_coupons[i].context,
             keywords_found |-> detected_coupons[i].keywords_found]],
       total_codes |-> stats.total_codes,
       average_confidence |-> stats.avg_confidence,
       keywords_detected |-> stats.keywords_found,
       analysis_timestamp |-> now.date \o <<"T">> \o now.time,
       recommendation |-> get_recommendation(detected_coupons)]

\* is_promotional_email (the tool): the dictionary returned
promotional_result(is_promo, found) ==
  [is_promotional |-> is_promo,
   keywords_found |-> found,
   keyword_count |-> Len(found),
   confidence |-> FMin(FMulInt(Len(found), F0_2), F1_0),
   recommendation |-> IF is_promo THEN "Process for coupons"
                      ELSE "No promotional content detected"]

\* c.code not in existing_codes
IsNewCode(c, existing_codes) ==
  \A i \in 1..Len(existing_codes) : existing_codes[i] # c.code

\* [c for c in detected_coupons if c.code not in existing_codes]
NewCoupons(detected_coupons, existing_codes) ==
  LET F[i \in 0..Len(detected_coupons)] ==
        IF i = 0 THEN <<>>
        ELSE IF IsNewCode(detected_coupons[i], existing_codes)
        THEN Append(F[i - 1], detected_coupons[i])
        ELSE F[i - 1]
  IN  F[Len(detected_coupons)]

\* [c.code for c in coupons]
CodeList(coupons) == [i \in 1..Len(coupons) |-> coupons[i].code]

\* the rows of the worksheet a logger holds (none when it holds none)
RowsOf(logger, sheets) ==
  IF logger.worksheet # NoObject THEN sheets[logger.worksheet] ELSE <<>>

----------------------------------------------------------------------------
(* The calls.  A caller picks a method of the detector and its arguments;  *)
(* the method runs to completion and the caller takes the result.          *)

VARIABLES
  op,             \* the method that ran last ("idle": none is pending)
  arg_text,           \* the text argument of clean_text, extract_coupon_codes
                  \* and calculate_confidence
  arg_code,       \* the code argument of calculate_confidence
  arg_subject,        \* email arguments
  arg_body,
  arg_sender,
  arg_coupons,    \* the list argument of get_detection_stats
  cleaned_text,        \* clean_text's result
  cleaned_again,  \* clean_text applied to its own result
  codes_list,          \* extract_coupon_codes: the list "codes" before dedup
  subject_codes,  \* detect_coupons_in_email: the two per-field lists
  body_codes,
  ret,            \* the value returned
  again_subject,  \* the arguments of a second call that follows the first
  again_body,
  ret_again,      \* the value the second call returned
  detector,       \* the detector's attributes: the tables __init__ built
  thread_pc,      \* threads that share the detector: where each one is in
                  \* its call
  thread_call,    \* the method a thread called and the arguments it passed
  thread_frame,   \* the local variables of the call a thread is in
  thread_ret,     \* the value a thread's call returned
  sheets_logger,  \* server.py: the global sheets_logger
  spreadsheets,   \* the spreadsheets at Google, by title: the rows of the
                  \* worksheet "Coupons" (<<>>: no such spreadsheet)
  tool_call,      \* the tool called last and its arguments
  tool_ret,       \* the dictionary it returned
  logger_before,  \* sheets_logger when that call began
  spreadsheets_before,  \* the spreadsheets when that call began
  setup_succeeded \* some call of setup_sheets_integration has returned
                  \* success=True

vars == <<op, arg_text, arg_code, arg_subject, arg_body, arg_sender, arg_coupons, cleaned_text, cleaned_again,
          codes_list, subject_codes, body_codes, ret,
          again_subject, again_body, ret_again, detector,
          thread_pc, thread_call, thread_frame, thread_ret,
          sheets_logger, spreadsheets, tool_call, tool_ret, logger_before,
          spreadsheets_before, setup_succeeded>>

\* the state of the single caller, and of the threads
seq_vars == <<op, arg_text, arg_code, arg_subject, arg_body, arg_sender, arg_coupons, cleaned_text,
              cleaned_again, codes_list, subject_codes, body_codes, ret,
              again_subject, again_body, ret_again>>

thread_vars == <<thread_pc, thread_call, thread_frame, thread_ret>>

\* the state of the server
server_vars == <<sheets_logger, spreadsheets, tool_call, tool_ret,
                 logger_before, spreadsheets_before, setup_succeeded>>

None == <<>>

\* CouponDetector.__init__: the attributes of the new detector.  The methods
\* read them and none assigns one, so the operators above are written over
\* the tables themselves.
Tables ==
  [keywords |-> keywords, compiled_patterns |-> coupon_patterns,
   false_positives |-> false_positives]

Idle ==
  /\ op = "idle"
  /\ arg_text = None /\ arg_code = None
  /\ arg_subject = None /\ arg_body = None /\ arg_sender = None
  /\ arg_coupons = None
  /\ cleaned_text = None /\ cleaned_again = None
  /\ codes_list = None /\ subject_codes = None /\ body_codes = None
  /\ ret = None
  /\ again_subject = None /\ again_body = None /\ ret_again = None

Threads == {"thread1", "thread2"}

\* the locals of detect_coupons_in_email and is_promotional_email
NoFrame ==
  [subject |-> None, body |-> None, sender |-> None, keywords_found |-> None,
   subject_codes |-> None, body_codes |-> None]

NoThreads ==
  /\ thread_pc = [th \in Threads |-> "idle"]
  /\ thread_call = [th \in Threads |-> None]
  /\ thread_frame = [th \in Threads |-> NoFrame]
  /\ thread_ret = [th \in Threads |-> None]

\* server.py at import: sheets_logger = None; no tool has been called
NoTools ==
  /\ sheets_logger = NoLogger
  /\ spreadsheets = [name \in SheetNames |-> <<>>]
  /\ tool_call = [tool |-> "none"]
  /\ tool_ret = NoObject
  /\ logger_before = NoLogger
  /\ spreadsheets_before = [name \in SheetNames |-> <<>>]
  /\ setup_succeeded = FALSE

Init == Idle /\ detector = Tables /\ NoThreads /\ NoTools

\* clean_text(t)
CallCleanText ==
  /\ op = "idle"
  /\ \E t \in CleanTexts \cup {Absent} :
       /\ arg_text' = t
       /\ cleaned_text' = clean_text(t)
       /\ ret' = cleaned_text'
  /\ op' = "clean_text"
  /\ UNCHANGED <<thread_vars, server_vars>>
  /\ UNCHANGED <<again_subject, again_body, ret_again, detector, arg_coupons,
                 arg_code, arg_subject, arg_body, arg_sender, cleaned_again, codes_list,
                 subject_codes, body_codes>>

\* clean_text on the text clean_text returned
CallCleanTextAgain ==
  /\ op = "clean_text"
  /\ cleaned_again' = clean_text(cleaned_text)
  /\ ret' = cleaned_again'
  /\ op' = "clean_text_again"
  /\ UNCHANGED <<thread_vars, server_vars>>
  /\ UNCHANGED <<again_subject, again_body, ret_again, detector, arg_coupons,
                 arg_text, arg_code, arg_subject, arg_body, arg_sender, cleaned_text, codes_list,
                 subject_codes, body_codes>>

\* extract_coupon_codes(t)
CallExtractCouponCodes ==
  /\ op = "idle"
  /\ \E t \in ExtractTexts :
       /\ arg_text' = t
       /\ cleaned_text' = clean_text(t)
       /\ codes_list' = Candidates(t)
       /\ ret' = extract_coupon_codes(t)
  /\ op' = "extract_coupon_codes"
  /\ UNCHANGED <<thread_vars, server_vars>>
  /\ UNCHANGED <<again_subject, again_body, ret_again, detector, arg_coupons,
                 arg_code, arg_subject, arg_body, arg_sender, cleaned_again,
                 subject_codes, body_codes>>

\* calculate_confidence(code, t, clean_text(t))
CallCalculateConfidence ==
  /\ op = "idle"
  /\ \E c \in ScoreCodes, t \in ScoreTexts :
       /\ arg_code' = c
       /\ arg_text' = t
       /\ cleaned_text' = clean_text(t)
       /\ ret' = calculate_confidence(c, t, clean_text(t))
  /\ op' = "calculate_confidence"
  /\ UNCHANGED <<thread_vars, server_vars>>
  /\ UNCHANGED <<again_subject, again_body, ret_again, detector, arg_coupons,
                 arg_subject, arg_body, arg_sender, cleaned_again, codes_list,
                 subject_codes, body_codes>>

\* detect_coupons_in_email(s, b, f)
CallDetectCoupons ==
  /\ op = "idle"
  /\ \E s \in FieldTexts \cup KelvinCodes \cup {ExampleSubject, Absent},
        b \in FieldTexts \cup {Absent},
        f \in Senders \cup {ExampleSender, Absent} :
       /\ <<s, b, f>> \in Emails
       /\ arg_subject' = s /\ arg_body' = b /\ arg_sender' = f
       /\ LET found == extract_keywords(AllText(s, b))
          IN  /\ subject_codes' =
                   IF found = <<>> THEN <<>> ELSE extract_coupon_codes(s)
              /\ body_codes' =
                   IF found = <<>> THEN <<>> ELSE extract_coupon_codes(b)
       /\ ret' = Stamp(detect_coupons_in_email(s, b, f), FirstTime)
  /\ op' = "detect_coupons_in_email"
  /\ UNCHANGED <<thread_vars, server_vars>>
  /\ UNCHANGED <<again_subject, again_body, ret_again, detector, arg_coupons,
                 arg_text, arg_code, cleaned_text, cleaned_again, codes_list>>

\* detect_coupons_in_email once more, with the arguments of the first call
CallDetectCouponsAgain ==
  /\ op = "detect_coupons_in_email"
  /\ again_subject' = arg_subject
  /\ again_body' = arg_body
  /\ LET coupon_codes ==
           detect_coupons_in_email(arg_subject, arg_body, arg_sender)
     IN  \E now \in Times : ret_again' = Stamp(coupon_codes, now)
  /\ op' = "detect_coupons_in_email_again"
  /\ UNCHANGED <<thread_vars, server_vars>>
  /\ UNCHANGED <<arg_text, arg_code, arg_subject, arg_body, arg_sender, arg_coupons,
                 cleaned_text, cleaned_again, codes_list, subject_codes,
                 body_codes, ret, detector>>

\* detect_coupons_in_email once more, at a later time, on the email of the
\* first call with another subject or another body (emails without sender
\* whose fields are short)
CallDetectCouponsOtherField ==
  /\ op = "detect_coupons_in_email"
  /\ arg_sender = <<>>
  /\ arg_subject \in ShortFieldTexts /\ arg_body \in ShortFieldTexts
  /\ \E field \in {"subject", "body"}, t \in OtherTexts :
       /\ again_subject' = IF field = "subject" THEN t ELSE arg_subject
       /\ again_body' = IF field = "body" THEN t ELSE arg_body
       /\ \E now \in Times \ {FirstTime} :
             ret_again' =
               Stamp(detect_coupons_in_email(again_subject', again_body',
                                             arg_sender), now)
  /\ op' = "detect_coupons_in_email_other"
  /\ UNCHANGED <<thread_vars, server_vars>>
  /\ UNCHANGED <<arg_text, arg_code, arg_subject, arg_body, arg_sender, arg_coupons,
                 cleaned_text, cleaned_again, codes_list, subject_codes,
                 body_codes, ret, detector>>

\* is_promotional_email(s, b)
CallIsPromotional ==
  /\ op = "idle"
  /\ \E s \in PromoTexts \cup {Absent}, b \in PromoTexts \cup {Absent} :
       /\ arg_subject' = s /\ arg_body' = b
       /\ ret' = is_promotional_email(s, b)
  /\ op' = "is_promotional_email"
  /\ UNCHANGED <<thread_vars, server_vars>>
  /\ UNCHANGED <<again_subject, again_body, ret_again, detector, arg_coupons,
                 arg_text, arg_code, arg_sender, cleaned_text, cleaned_again, codes_list,
                 subject_codes, body_codes>>

\* is_promotional_email once more, on the same email in another case
CallIsPromotionalRecased ==
  /\ op = "is_promotional_email"
  /\ arg_subject # Absent /\ arg_body # Absent
  /\ \E change \in CaseChanges :
       /\ again_subject' = Recase(change, arg_subject)
       /\ again_body' = Recase(change, arg_body)
       /\ ret_again' = is_promotional_email(again_subject', again_body')
  /\ op' = "is_promotional_email_recased"
  /\ UNCHANGED <<thread_vars, server_vars>>
  /\ UNCHANGED <<arg_text, arg_code, arg_subject, arg_body, arg_sender, arg_coupons,
                 cleaned_text, cleaned_again, codes_list, subject_codes,
                 body_codes, ret, detector>>

\* get_detection_stats(coupon_codes)
CallGetDetectionStats ==
  /\ op = "idle"
  /\ \E coupon_codes \in StatsLists :
       /\ arg_coupons' = coupon_codes
       /\ \E unique_keywords \in ListsOfSet(KeywordSet(coupon_codes)) :
             ret' = get_detection_stats(coupon_codes, unique_keywords)
  /\ op' = "get_detection_stats"
  /\ UNCHANGED <<thread_vars, server_vars>>
  /\ UNCHANGED <<again_subject, again_body, ret_again, detector,
                 arg_text, arg_code, arg_subject, arg_body, arg_sender,
                 cleaned_text, cleaned_again, codes_list, subject_codes,
                 body_codes>>

\* the caller takes the result
Return ==
  /\ op # "idle"
  /\ op' = "idle"
  /\ arg_text' = None /\ arg_code' = None
  /\ arg_subject' = None /\ arg_body' = None /\ arg_sender' = None
  /\ arg_coupons' = None
  /\ cleaned_text' = None /\ cleaned_again' = None
  /\ codes_list' = None /\ subject_codes' = None /\ body_codes' = None
  /\ ret' = None
  /\ again_subject' = None /\ again_body' = None /\ ret_again' = None
  /\ UNCHANGED detector
  /\ UNCHANGED <<thread_vars, server_vars>>

Next ==
  \/ CallCleanText
  \/ CallCleanTextAgain
  \/ CallExtractCouponCodes
  \/ CallCalculateConfidence
  \/ CallDetectCoupons
  \/ CallDetectCouponsAgain
  \/ CallDetectCouponsOtherField
  \/ CallIsPromotional
  \/ CallIsPromotionalRecased
  \/ CallGetDetectionStats
  \/ Return

Spec == Init /\ [][Next]_vars

----------------------------------------------------------------------------
(* Threads that share one detector.  A call runs statement by statement,   *)
(* and the statements of the calls of different threads interleave.  The   *)
(* arguments and the local variables of a call live in the frame of the    *)
(* call; the tables live in the detector.                                  *)

\* mutant: the calls keep their local variables in one place
FrameOf_shared(th) == "thread1"

\* the frame of the call thread th is in
FrameOf(th) == th

\* the emails the threads analyse
ThreadEmails ==
  {<<FieldFrags[1], FieldFrags[3], ExampleSender>>,
   <<FieldFrags[3], FieldFrags[2], <<>>>>,
   <<FieldFrags[1], FieldFrags[2], <<>>>>}

\* def detect_coupons_in_email(self, subject, body, sender)
ThreadCallDetectCoupons(th) ==
  /\ thread_pc[th] = "idle"
  /\ \E e \in ThreadEmails :
       /\ thread_call' = [thread_call EXCEPT ![th] =
             [method |-> "detect_coupons_in_email",
              subject |-> e[1], body |-> e[2], sender |-> e[3]]]
       /\ thread_frame' = [thread_frame EXCEPT ![FrameOf(th)] =
             [NoFrame EXCEPT !.subject = e[1], !.body = e[2], !.sender = e[3]]]
  /\ thread_pc' = [thread_pc EXCEPT ![th] = "detect_keywords"]
  /\ UNCHANGED <<thread_ret, detector>>
  /\ UNCHANGED <<seq_vars, server_vars>>

\* def is_promotional_email(self, subject, body)
ThreadCallIsPromotional(th) ==
  /\ thread_pc[th] = "idle"
  /\ \E e \in ThreadEmails :
       /\ thread_call' = [thread_call EXCEPT ![th] =
             [method |-> "is_promotional_email",
              subject |-> e[1], body |-> e[2], sender |-> None]]
       /\ thread_frame' = [thread_frame EXCEPT ![FrameOf(th)] =
             [NoFrame EXCEPT !.subject = e[1], !.body = e[2]]]
  /\ thread_pc' = [thread_pc EXCEPT ![th] = "promotional_keywords"]
  /\ UNCHANGED <<thread_ret, detector>>
  /\ UNCHANGED <<seq_vars, server_vars>>

\* detect_coupons_in_email: keywords_found = self.extract_keywords(all_text)
\* and the return of [] when there is none
ThreadDetectKeywords(th) ==
  /\ thread_pc[th] = "detect_keywords"
  /\ LET frame == thread_frame[FrameOf(th)]
         found == extract_keywords(AllText(frame.subject, frame.body))
     IN  /\ thread_frame' =
               [thread_frame EXCEPT ![FrameOf(th)].keywords_found = found]
         /\ IF found = <<>>
            THEN /\ thread_ret' = [thread_ret EXCEPT ![th] = <<>>]
                 /\ thread_pc' = [thread_pc EXCEPT ![th] = "done"]
            ELSE /\ thread_ret' = thread_ret
                 /\ thread_pc' = [thread_pc EXCEPT ![th] = "subject_codes"]
  /\ UNCHANGED <<thread_call, detector>>
  /\ UNCHANGED <<seq_vars, server_vars>>

\* subject_codes = self.extract_coupon_codes(subject)
ThreadSubjectCodes(th) ==
  /\ thread_pc[th] = "subject_codes"
  /\ thread_frame' =
       [thread_frame EXCEPT ![FrameOf(th)].subject_codes =
          extract_coupon_codes(thread_frame[FrameOf(th)].subject)]
  /\ thread_pc' = [thread_pc EXCEPT ![th] = "body_codes"]
  /\ UNCHANGED <<thread_call, thread_ret, detector>>
  /\ UNCHANGED <<seq_vars, server_vars>>

\* body_codes = self.extract_coupon_codes(body)
ThreadBodyCodes(th) ==
  /\ thread_pc[th] = "body_codes"
  /\ thread_frame' =
       [thread_frame EXCEPT ![FrameOf(th)].body_codes =
          extract_coupon_codes(thread_frame[FrameOf(th)].body)]
  /\ thread_pc' = [thread_pc EXCEPT ![th] = "coupon_codes"]
  /\ UNCHANGED <<thread_call, thread_ret, detector>>
  /\ UNCHANGED <<seq_vars, server_vars>>

\* the loop that builds coupon_codes, the sort and the return
ThreadCouponCodes(th) ==
  /\ thread_pc[th] = "coupon_codes"
  /\ LET frame == thread_frame[FrameOf(th)]
         coupon_codes ==
           SortDesc(Wrap(frame.subject_codes \o frame.body_codes,
                         frame.subject, frame.sender, frame.keywords_found))
     IN  \E now \in Times :
            thread_ret' = [thread_ret EXCEPT ![th] = Stamp(coupon_codes, now)]
  /\ thread_pc' = [thread_pc EXCEPT ![th] = "done"]
  /\ UNCHANGED <<thread_call, thread_frame, detector>>
  /\ UNCHANGED <<seq_vars, server_vars>>

\* is_promotional_email: keywords_found = self.extract_keywords(...) and
\* return len(keywords_found) > 0
ThreadPromotionalKeywords(th) ==
  /\ thread_pc[th] = "promotional_keywords"
  /\ LET frame == thread_frame[FrameOf(th)]
         found == extract_keywords(AllText(frame.subject, frame.body))
     IN  /\ thread_frame' =
               [thread_frame EXCEPT ![FrameOf(th)].keywords_found = found]
         /\ thread_ret' = [thread_ret EXCEPT ![th] = Len(found) > 0]
  /\ thread_pc' = [thread_pc EXCEPT ![th] = "done"]
  /\ UNCHANGED <<thread_call, detector>>
  /\ UNCHANGED <<seq_vars, server_vars>>

\* the thread takes the result; the frame of the call is gone
ThreadReturn(th) ==
  /\ thread_pc[th] = "done"
  /\ thread_pc' = [thread_pc EXCEPT ![th] = "idle"]
  /\ thread_call' = [thread_call EXCEPT ![th] = None]
  /\ thread_frame' = [thread_frame EXCEPT ![FrameOf(th)] = NoFrame]
  /\ thread_ret' = [thread_ret EXCEPT ![th] = None]
  /\ UNCHANGED detector
  /\ UNCHANGED <<seq_vars, server_vars>>

ThreadNext ==
  \/ \E th \in Threads : ThreadCallDetectCoupons(th)
  \/ \E th \in Threads : ThreadCallIsPromotional(th)
  \/ \E th \in Threads : ThreadDetectKeywords(th)
  \/ \E th \in Threads : ThreadSubjectCodes(th)
  \/ \E th \in Threads : ThreadBodyCodes(th)
  \/ \E th \in Threads : ThreadCouponCodes(th)
  \/ \E th \in Threads : ThreadPromotionalKeywords(th)
  \/ \E th \in Threads : ThreadReturn(th)

ThreadSpec == Init /\ [][ThreadNext]_vars

----------------------------------------------------------------------------
(* Properties *)

\* the codes of a list of entries
CodesOf(cs) == { cs[i].code : i \in 1..Len(cs) }

\* C1: keyword gate. When no vocabulary keyword occurs in subject + " " +
\* body, detect_coupons_in_email returns the empty list, whatever
\* code-shaped tokens the two fields hold.
C1_KeywordGate ==
  (op = "detect_coupons_in_email" /\ ~is_promotional_email(arg_subject, arg_body))
     => ret = <<>>

\* C1 witness: a call on an email without keywords whose subject holds a
\* token that extract_coupon_codes would return.
C1_Witness ==
  /\ op = "detect_coupons_in_email"
  /\ ~is_promotional_email(arg_subject, arg_body)
  /\ extract_coupon_codes(arg_subject) # <<>>
  /\ ret = <<>>

\* C2: dedup within one field. The list extract_coupon_codes returns for one
\* text holds no code twice, and the entry kept for a code is one of the
\* occurrences found (its confidence with its context) and no occurrence of
\* that code has a higher confidence.
NoCodeTwice(cs) == \A i, j \in 1..Len(cs) : cs[i].code = cs[j].code => i = j

C2_DedupWithinField ==
  /\ op = "extract_coupon_codes" =>
       /\ NoCodeTwice(ret)
       /\ \A i \in 1..Len(ret) :
            /\ \E j \in 1..Len(codes_list) : codes_list[j] = ret[i]
            /\ \A j \in 1..Len(codes_list) :
                 codes_list[j].code = ret[i].code
                   => ~FLess(ret[i].confidence, codes_list[j].confidence)
  /\ op = "detect_coupons_in_email" =>
       NoCodeTwice(subject_codes) /\ NoCodeTwice(body_codes)

\* C2 witness: several matches produced the same code and one entry is kept.
C2_Witness ==
  /\ op = "extract_coupon_codes"
  /\ \E i, j \in 1..Len(codes_list) : i # j /\ codes_list[i].code = codes_list[j].code
  /\ ret # <<>>

\* C3: per-call uniqueness. No two entries of the list one
\* detect_coupons_in_email call returns share a code.
C3_PerCallUnique == op = "detect_coupons_in_email" => NoCodeTwice(ret)

\* the entry of cs with code c
EntryOf(cs, c) == cs[CHOOSE i \in 1..Len(cs) : cs[i].code = c]

\* C4: no cross-field merge. A code extracted from both the subject and the
\* body of a promotional email has two entries in the result, one with the
\* confidence and context of the subject's extraction and one with those of
\* the body's.
C4_NoCrossFieldMerge ==
  (op = "detect_coupons_in_email" /\ is_promotional_email(arg_subject, arg_body)) =>
     LET sc == extract_coupon_codes(arg_subject)
         bc == extract_coupon_codes(arg_body)
     IN  \A c \in CodesOf(sc) \cap CodesOf(bc) :
            LET at == { i \in 1..Len(ret) : ret[i].code = c }
                se == EntryOf(sc, c)
                be == EntryOf(bc, c)
            IN  /\ Cardinality(at) = 2
                /\ \E i, j \in at :
                     /\ i # j
                     /\ ret[i].confidence = se.confidence
                     /\ ret[i].context = se.context
                     /\ ret[j].confidence = be.confidence
                     /\ ret[j].context = be.context

\* C4 witness: the same code came out of both fields, with different
\* confidences and contexts.
C4_Witness ==
  /\ op = "detect_coupons_in_email"
  /\ \E i \in 1..Len(subject_codes), j \in 1..Len(body_codes) :
        /\ subject_codes[i].code = body_codes[j].code
        /\ subject_codes[i].confidence # body_codes[j].confidence
        /\ subject_codes[i].context # body_codes[j].context
  /\ ret # <<>>

\* 0.0 <= x <= 1.0
InUnitInterval(x) == ~FLess(x, F0_0) /\ ~FLess(F1_0, x)

\* C5: confidence is clamped. Every confidence calculate_confidence returns,
\* and every confidence of a returned entry, lies in [0.0, 1.0].
C5_ConfidenceClamped ==
  /\ op = "calculate_confidence" => InUnitInterval(ret)
  /\ op \in {"extract_coupon_codes", "detect_coupons_in_email"} =>
       \A i \in 1..Len(ret) : InUnitInterval(ret[i].confidence)

\* C5 witness: the bonuses add up to more than 1.0 and 1.0 is returned.
C5_Witness ==
  /\ op = "calculate_confidence"
  /\ FLess(F1_0, ConfidenceSum(arg_code, arg_text, cleaned_text))
  /\ ret = F1_0

\* C6: clean_text is idempotent: clean_text(clean_text(t)) = clean_text(t).
C6_CleanTextIdempotent == op = "clean_text_again" => cleaned_again = cleaned_text

\* the first place of code c in the list cs
FirstIndex(cs, c) ==
  CHOOSE i \in 1..Len(cs) :
     cs[i].code = c /\ \A j \in 1..(i - 1) : cs[j].code # c

\* C7: output ordering. detect_coupons_in_email returns the subject entries
\* followed by the body entries, sorted by descending confidence with
\* entries of equal confidence in that order; within a field the entries
\* stand in the order in which their codes were first matched.
C7_OutputOrdering ==
  /\ op = "detect_coupons_in_email" =>
       LET cs == subject_codes \o body_codes
           Rank(i) ==
             Cardinality({ j \in 1..Len(cs) :
                            FLess(cs[i].confidence, cs[j].confidence) })
             + Cardinality({ j \in 1..(i - 1) :
                              cs[j].confidence = cs[i].confidence })
             + 1
       IN  /\ Len(ret) = Len(cs)
           /\ \A i, j \in 1..Len(ret) :
                i < j => ~FLess(ret[i].confidence, ret[j].confidence)
           /\ \A i \in 1..Len(cs) :
                /\ ret[Rank(i)].code = cs[i].code
                /\ ret[Rank(i)].confidence = cs[i].confidence
                /\ ret[Rank(i)].context = cs[i].context
  /\ op = "extract_coupon_codes" =>
       \A i, j \in 1..Len(ret) :
          i < j => FirstIndex(codes_list, ret[i].code) < FirstIndex(codes_list, ret[j].code)

\* C7 witness: two different subject codes tie and a body entry with a
\* higher confidence is sorted in front of them.
C7_Witness ==
  /\ op = "detect_coupons_in_email"
  /\ \E i, j \in 1..Len(subject_codes) :
        /\ i < j
        /\ subject_codes[i].code # subject_codes[j].code
        /\ subject_codes[i].confidence = subject_codes[j].confidence
  /\ \E j \in 1..Len(body_codes) :
        /\ FLess(subject_codes[1].confidence, body_codes[j].confidence)
        /\ ret[1].code = body_codes[j].code

\* c stands in s as a whole token: no letter or digit before or after it
IsWholeTokenOf(s, c) ==
  \E p \in 1..Len(s) :
     /\ StartsAt(s, p, c)
     /\ (p = 1 \/ s[p - 1] \notin AlnumIC)
     /\ (p + Len(c) > Len(s) \/ s[p + Len(c)] \notin AlnumIC)

\* C8: whole-token codes. Every code extract_coupon_codes returns is a
\* complete token of the cleaned text, never a fragment of a longer run of
\* letters and digits.
C8_WholeTokenCodes ==
  op = "extract_coupon_codes" =>
     \A i \in 1..Len(ret) : IsWholeTokenOf(cleaned_text, ret[i].code)

\* C9: false-positive exclusion. No returned code is a member of the
\* false-positive lexicon.
C9_FalsePositiveExclusion ==
  op \in {"extract_coupon_codes", "detect_coupons_in_email"} =>
     \A i \in 1..Len(ret) : ret[i].code \notin false_positives

\* C9 witness: a pattern matched a lexicon word, other codes of the same
\* text are returned.
C9_Witness ==
  /\ op = "extract_coupon_codes"
  /\ ret # <<>>
  /\ \E p \in 1..Len(coupon_patterns) :
        LET ms == finditer(cleaned_text, coupon_patterns[p])
        IN  \E j \in 1..Len(ms) : ms[j].code \in false_positives

\* ASCII punctuation (the grave accent cannot be written in a string here)
Punctuation ==
  {"!", "\"", "#", "$", "%", "&", "'", "(", ")", "*", "+", ",", "-", ".",
   "/", ":", ";", "<", "=", ">", "?", "@", "[", "\\", "]", "^", "_", "{",
   "|", "}", "~"}

\* s[p..p+3] is a token of four characters with a letter and a digit in it
IsMixedToken4(s, p) ==
  /\ p + 3 <= Len(s)
  /\ \A k \in p..(p + 3) : s[k] \in AlnumIC
  /\ \E k \in p..(p + 3) : s[k] \in LettersIC
  /\ \E k \in p..(p + 3) : s[k] \in Digits
  /\ (p = 1 \/ s[p - 1] \notin AlnumIC)
  /\ (p + 4 > Len(s) \/ s[p + 4] \notin AlnumIC)

\* every four-character mixed token followed by the end of the text or by a
\* character of S is returned
MixedTokens4Returned(S) ==
  op = "extract_coupon_codes" =>
     \A p \in 1..Len(cleaned_text) :
        (IsMixedToken4(cleaned_text, p)
           /\ (p + 4 > Len(cleaned_text) \/ cleaned_text[p + 4] \in S))
          => SubSeq(cleaned_text, p, p + 3) \in CodesOf(ret)

LengthsInRange ==
  op \in {"extract_coupon_codes", "detect_coupons_in_email"} =>
     \A i \in 1..Len(ret) : Len(ret[i].code) \in 4..15

\* C10 as stated: every returned code has 4 to 15 characters, and a
\* four-character token mixing letters and digits that is followed by white
\* space, punctuation or the end of the text is returned.
C10_LengthBoundary_AsStated ==
  LengthsInRange /\ MixedTokens4Returned(Whitespace \cup Punctuation)

\* C10, amended: every returned code has 4 to 15 characters, and a
\* four-character token mixing letters and digits that is followed by white
\* space, by one of . , ! or by the end of the text is returned.
C10_LengthBoundary ==
  LengthsInRange /\ MixedTokens4Returned(Whitespace \cup {".", ",", "!"})

\* C10 witness: a four-character mixed token before a full stop is returned
\* from a text that also holds a token of three characters, which is not.
C10_Witness ==
  /\ op = "extract_coupon_codes"
  /\ \E p \in 1..Len(cleaned_text) :
        /\ IsMixedToken4(cleaned_text, p)
        /\ p + 4 <= Len(cleaned_text) /\ cleaned_text[p + 4] = "."
        /\ SubSeq(cleaned_text, p, p + 3) \in CodesOf(ret)
  /\ \E p \in 1..Len(cleaned_text) :
        /\ RunLength(cleaned_text, p, AlnumIC, -1) = 3
        /\ (p = 1 \/ cleaned_text[p - 1] \notin AlnumIC)
        /\ SubSeq(cleaned_text, p, p + 2) \notin CodesOf(ret)

\* C11: short single-type exclusion. A returned code that consists of digits
\* only or of letters only has at least 6 characters.
C11_ShortSingleType ==
  op \in {"extract_coupon_codes", "detect_coupons_in_email"} =>
     \A i \in 1..Len(ret) :
        (isdigit(ret[i].code) \/ isalpha(ret[i].code)) => Len(ret[i].code) >= 6

\* C11 witness: a pattern matched four or five digits, or four or five
\* letters, that pass the lexicon and the length tests; the match is not
\* returned while another code of the same text is.
C11_Witness ==
  /\ op = "extract_coupon_codes"
  /\ ret # <<>>
  /\ \E p \in 1..Len(coupon_patterns) :
        LET ms == finditer(cleaned_text, coupon_patterns[p])
        IN  \E j \in 1..Len(ms) :
               /\ ms[j].code \notin false_positives
               /\ Len(ms[j].code) \in 4..5
               /\ isdigit(ms[j].code) \/ isalpha(ms[j].code)
               /\ ms[j].code \notin CodesOf(ret)



\* the number of context phrases found in the cleaned text
ContextCount(clean) ==
  Cardinality({k \in 1..Len(context_keywords) :
                 Contains(clean, upper(context_keywords[k]))})

\* min(1.0, 0.5 + min(0.1*K, 0.3) + A + S + P + 0.1*X + L) in twentieths
NominalScore(code, original_text, clean) ==
  Min(20,
      10 + Min(2 * Len(extract_keywords(original_text)), 6)
         + (IF IsCapsAlnum(code) THEN 2 ELSE 0)
         + (IF \E w \in 1..Len(PromoWords) : Contains(code, PromoWords[w])
            THEN 3 ELSE 0)
         + (IF HasPercentage(code) THEN 4 ELSE 0)
         + 2 * ContextCount(clean)
         + (IF 6 <= Len(code) /\ Len(code) <= 10 THEN 2
            ELSE IF 4 <= Len(code) /\ Len(code) <= 12 THEN 1 ELSE 0))

\* the formula evaluated in doubles, term by term as it is written
FormulaAsWritten(code, original_text, clean) ==
  FMin(F1_0,
    FAdd(
      FAdd(
        FAdd(
          FAdd(
            FAdd(
              FAdd(F0_5,
                   FMin(FMulInt(Len(extract_keywords(original_text)), F0_1), F0_3)),
              IF IsCapsAlnum(code) THEN F0_1 ELSE F0_0),
            IF \E w \in 1..Len(PromoWords) : Contains(code, PromoWords[w])
            THEN F0_15 ELSE F0_0),
          IF HasPercentage(code) THEN F0_2 ELSE F0_0),
        FMulInt(ContextCount(clean), F0_1)),
      IF 6 <= Len(code) /\ Len(code) <= 10 THEN F0_1
      ELSE IF 4 <= Len(code) /\ Len(code) <= 12 THEN F0_05 ELSE F0_0))

\* C12: scoring formula. The value calculate_confidence returns is exactly
\* min(1.0, 0.5 + min(0.1*K, 0.3) + A + S + P + 0.1*X + L): the double that
\* stands for that number, or the double the formula gives when it is
\* evaluated in doubles as written.
C12_ScoringFormula ==
  op = "calculate_confidence" =>
     \/ ret = Twentieths(NominalScore(arg_code, arg_text, cleaned_text))
     \/ ret = FormulaAsWritten(arg_code, arg_text, cleaned_text)

\* what does hold: the returned double is the formula's value up to the
\* rounding of the additions
C12_ScoringFormulaRounded ==
  op = "calculate_confidence" =>
     ret[1] = NominalScore(arg_code, arg_text, cleaned_text)


\* two characters that differ in case at most
SameIgnoringCase(a, b) == ToLower(a) = ToLower(b) \/ ToUpper(a) = ToUpper(b)

\* w is a case-insensitive substring of s
OccursIgnoringCase(s, w) ==
  \E i \in 1..(Len(s) - Len(w) + 1) :
     \A j \in 1..Len(w) : SameIgnoringCase(s[i + j - 1], w[j])

\* some vocabulary keyword is a case-insensitive substring of the cleaned
\* text of subject and body joined by one space
HasKeyword(subject, body) ==
  \E k \in 1..Len(keywords) :
     OccursIgnoringCase(clean_text(AllText(subject, body)), keywords[k])

IsPromotionalCall == op \in {"is_promotional_email", "is_promotional_email_recased"}

\* C13: is_promotional_email returns true if and only if a vocabulary keyword
\* is a case-insensitive substring of the cleaned text of subject and body
\* joined by one space; the same email in another case gets the same answer;
\* the call leaves the detector's tables as they were.
C13_PromotionalIffKeyword ==
  /\ IsPromotionalCall => (ret <=> HasKeyword(arg_subject, arg_body))
  /\ op = "is_promotional_email_recased" => (ret_again <=> ret)
  /\ IsPromotionalCall => detector = Tables

\* what does hold: the same on emails without a letter outside ASCII
C13_PromotionalIffKeywordAscii ==
  (/\ IsPromotionalCall
   /\ \A i \in 1..Len(arg_subject) : arg_subject[i] # KelvinSign
   /\ \A i \in 1..Len(arg_body) : arg_body[i] # KelvinSign)
  => /\ ret <=> HasKeyword(arg_subject, arg_body)
     /\ op = "is_promotional_email_recased" => (ret_again <=> ret)
     /\ detector = Tables


\* C14: the worked example. For the subject of examples/sample_usage.py and
\* the sender deals@fashionstore.com, whatever the body, the list
\* detect_coupons_in_email returns has an entry with code SAVE25NOW and a
\* confidence of at least 0.8.
C14_WorkedExample ==
  (/\ op = "detect_coupons_in_email"
   /\ arg_subject = ExampleSubject
   /\ arg_sender = ExampleSender)
  => \E i \in 1..Len(ret) :
        /\ ret[i].code = <<"S","A","V","E","2","5","N","O","W">>
        /\ ~FLess(ret[i].confidence, F0_8)

C14_Witness ==
  /\ op = "detect_coupons_in_email"
  /\ arg_subject = ExampleSubject
  /\ arg_sender = ExampleSender
  /\ arg_body # <<>>
  /\ \E i \in 1..Len(ret) :
        /\ ret[i].code = <<"S","A","V","E","2","5","N","O","W">>
        /\ ret[i].confidence = F1_0
        /\ ret[i].source = ExampleSender
  /\ \E i \in 1..Len(ret) : ret[i].code \in CodesOf(body_codes)


\* C15: clean_text output is whitespace-collapsed and trimmed. The string
\* clean_text returns has no two white-space characters in a row and no
\* white space at its start or end, also when the input has the entity
\* &nbsp; next to spaces.
C15_CollapsedAndTrimmed ==
  op \in {"clean_text", "clean_text_again"} =>
     /\ \A i \in 1..(Len(ret) - 1) :
           ~(ret[i] \in Whitespace /\ ret[i + 1] \in Whitespace)
     /\ ret # <<>> => (ret[1] \notin Whitespace /\ ret[Len(ret)] \notin Whitespace)

\* what does hold: the result is trimmed
C15_Trimmed ==
  op \in {"clean_text", "clean_text_again"} =>
     (ret # <<>> => (ret[1] \notin Whitespace /\ ret[Len(ret)] \notin Whitespace))


\* the fields of an entry other than the time stamp
WithoutTime(c) ==
  <<c.code, c.confidence, c.context, c.email_subject, c.source,
    c.keywords_found>>

SameButTime(a, b) ==
  /\ Len(a) = Len(b)
  /\ \A i \in 1..Len(a) : WithoutTime(a[i]) = WithoutTime(b[i])

\* the call of thread th returned what it returns when it runs alone
ReturnsAsAlone(th) ==
  LET call == thread_call[th]
  IN  IF call.method = "detect_coupons_in_email"
      THEN SameButTime(thread_ret[th],
                       detect_coupons_in_email(call.subject, call.body, call.sender))
      ELSE thread_ret[th] <=> is_promotional_email(call.subject, call.body)

\* C17: concurrent analyses do not interfere. However the statements of the
\* detect_coupons_in_email and is_promotional_email calls of threads that
\* share one detector interleave, a call that has returned has returned what
\* it returns alone, and the keyword table, the compiled patterns and the
\* false-positive lexicon are as __init__ built them.
C17_NoInterference ==
  /\ \A th \in Threads : thread_pc[th] = "done" => ReturnsAsAlone(th)
  /\ detector = Tables

\* a detect_coupons_in_email call that found codes returns while the call of
\* another thread, on another email, is between two of its statements
C17_Witness ==
  \E th \in Threads, other \in Threads :
     /\ th # other
     /\ thread_pc[th] = "done"
     /\ thread_call[th].method = "detect_coupons_in_email"
     /\ Len(thread_ret[th]) >= 2
     /\ thread_pc[other] \in {"subject_codes", "body_codes", "coupon_codes"}
     /\ thread_call[other].subject # thread_call[th].subject
     /\ detector = Tables


\* the characters of context around a match
ContextWidth == 20

\* context is the part of clean from position a on and lies within
\* ContextWidth characters of the match m
IsWindowAt(clean, context, m, a) ==
  /\ a + Len(context) - 1 <= Len(clean)
  /\ context = SubSeq(clean, a, a + Len(context) - 1)
  /\ a >= m.start - ContextWidth
  /\ a + Len(context) - 1 <= (m.end - 1) + ContextWidth

\* c is an entry for a match of its code in clean, matches[p] being the
\* matches of pattern p in clean, and its context is a part of clean that
\* contains the code and lies within the window of that match
HasOwnContext(clean, matches, c) ==
  /\ Contains(c.context, c.code)
  /\ \E p \in 1..Len(coupon_patterns) :
        \E j \in 1..Len(matches[p]) :
           /\ matches[p][j].code = c.code
           /\ \E a \in 1..Len(clean) :
                 IsWindowAt(clean, c.context, matches[p][j], a)

\* the entry e of a result has the code, confidence and context of c
IsEntryFor(e, c) ==
  e.code = c.code /\ e.confidence = c.confidence /\ e.context = c.context

\* C18: context window. The context of every returned entry is a part of the
\* cleaned text of the field in which its code was matched, contains the
\* code and reaches at most 20 characters beyond each end of the match; for
\* an email, the field is the subject for the subject's entries and the body
\* for the body's.
C18_ContextWindow ==
  /\ op = "extract_coupon_codes" =>
        \A i \in 1..Len(ret) :
           HasOwnContext(cleaned_text, MatchesOf(arg_text), ret[i])
  /\ op = "detect_coupons_in_email" =>
        \A i \in 1..Len(ret) :
           \/ \E j \in 1..Len(subject_codes) :
                 /\ IsEntryFor(ret[i], subject_codes[j])
                 /\ HasOwnContext(clean_text(arg_subject),
                                  MatchesOf(arg_subject), subject_codes[j])
           \/ \E j \in 1..Len(body_codes) :
                 /\ IsEntryFor(ret[i], body_codes[j])
                 /\ HasOwnContext(clean_text(arg_body),
                                  MatchesOf(arg_body), body_codes[j])

\* an entry whose context is cut 20 characters from the match
C18_Witness ==
  /\ op = "extract_coupon_codes"
  /\ \E i \in 1..Len(ret) :
        /\ Len(ret[i].context) < Len(cleaned_text)
        /\ Len(ret[i].context) > Len(ret[i].code)
        /\ HasOwnContext(cleaned_text, MatchesOf(arg_text), ret[i])


StatsFields ==
  {"total_codes", "avg_confidence", "keywords_found", "codes_by_confidence"}

\* C19: get_detection_stats on the empty list returns a zeroed summary with
\* the four fields it has for other lists: count 0, average confidence 0, no
\* keyword and an empty per-code confidence list.
C19_EmptyStats ==
  (op = "get_detection_stats" /\ arg_coupons = <<>>) =>
     /\ DOMAIN ret = StatsFields
     /\ ret.total_codes = 0
     /\ ret.avg_confidence = 0
     /\ ret.keywords_found = <<>>
     /\ ret.codes_by_confidence = <<>>

\* what does hold: count 0, average 0 and no keyword
C19_EmptyStatsThreeFields ==
  (op = "get_detection_stats" /\ arg_coupons = <<>>) =>
     /\ DOMAIN ret = StatsFields \ {"codes_by_confidence"}
     /\ ret.total_codes = 0
     /\ ret.avg_confidence = 0
     /\ ret.keywords_found = <<>>

\* the sum of the confidences of cs[i..], in twentieths
RECURSIVE SumOfTwentieths(_, _)
SumOfTwentieths(cs, i) ==
  IF i > Len(cs) THEN 0 ELSE cs[i].confidence[1] + SumOfTwentieths(cs, i + 1)

\* h hundredths is what the mean of the confidences of cs is when rounded to
\* two decimals: no hundredth is nearer to the mean
IsRoundedMean(h, cs) ==
  /\ 2 * (h * Len(cs) - 5 * SumOfTwentieths(cs, 1)) <= Len(cs)
  /\ 2 * (5 * SumOfTwentieths(cs, 1) - h * Len(cs)) <= Len(cs)

\* C20: get_detection_stats on a list that is not empty returns the length
\* of the list as count, the mean of the confidences rounded to two decimals
\* as average confidence, every keyword of an entry once and nothing else as
\* keywords, and one (code, confidence) pair per entry, in the order of the
\* list.
C20_Stats ==
  (op = "get_detection_stats" /\ arg_coupons # <<>>) =>
     /\ DOMAIN ret = StatsFields
     /\ ret.total_codes = Len(arg_coupons)
     /\ IsRoundedMean(ret.avg_confidence, arg_coupons)
     /\ \A i, j \in 1..Len(ret.keywords_found) :
           i # j => ret.keywords_found[i] # ret.keywords_found[j]
     /\ { ret.keywords_found[i] : i \in 1..Len(ret.keywords_found) }
          = UNION { { arg_coupons[i].keywords_found[j] :
                        j \in 1..Len(arg_coupons[i].keywords_found) } :
                    i \in 1..Len(arg_coupons) }
     /\ Len(ret.codes_by_confidence) = Len(arg_coupons)
     /\ \A i \in 1..Len(arg_coupons) :
           /\ DOMAIN ret.codes_by_confidence[i] = {"code", "confidence"}
           /\ ret.codes_by_confidence[i].code = arg_coupons[i].code
           /\ ret.codes_by_confidence[i].confidence = arg_coupons[i].confidence

\* a list of entries with different confidences, in no order, that share a
\* keyword and whose mean is no whole number of hundredths
C20_Witness ==
  /\ op = "get_detection_stats"
  /\ Len(arg_coupons) >= 3
  /\ FLess(arg_coupons[1].confidence, arg_coupons[2].confidence)
  /\ FLess(arg_coupons[3].confidence, arg_coupons[2].confidence)
  /\ (5 * SumOfTwentieths(arg_coupons, 1)) % Len(arg_coupons) # 0
  /\ Len(ret.keywords_found) < Len(AllKeywords(arg_coupons, 1))
  /\ ret.total_codes = Len(arg_coupons)

\* an absent argument taken as the empty text
Blank(x) == IF x = Absent THEN <<>> ELSE x

\* the code, the confidence and the context of every entry, in list order
CodeConfidenceContext(cs) ==
  [i \in 1..Len(cs) |->
     [code |-> cs[i].code, confidence |-> cs[i].confidence,
      context |-> cs[i].context]]

\* C21: absent input is not an error. clean_text of an absent or empty text
\* is the empty text, and is_promotional_email and detect_coupons_in_email
\* with an absent subject, body or sender return, without raising, the
\* boolean and the codes, confidences and contexts they return when that
\* argument is the empty text.
C21_AbsentAsEmpty ==
  /\ (op = "clean_text" /\ ~Truthy(arg_text)) => ret = <<>>
  /\ (op = "is_promotional_email" /\ Absent \in {arg_subject, arg_body}) =>
       /\ ret \in BOOLEAN
       /\ ret = is_promotional_email(Blank(arg_subject), Blank(arg_body))
  /\ (op = "detect_coupons_in_email"
        /\ Absent \in {arg_subject, arg_body, arg_sender}) =>
       /\ CodeConfidenceContext(ret) =
            CodeConfidenceContext(
              detect_coupons_in_email(Blank(arg_subject), Blank(arg_body),
                                      Blank(arg_sender)))

\* a code is found in the body of an email that has no subject
C21_Witness ==
  /\ op = "detect_coupons_in_email"
  /\ arg_subject = Absent
  /\ arg_sender = <<>>
  /\ ret # <<>>
  /\ ret[1].email_subject = Absent
  /\ ret[1].source = Unknown

\* the keyword gate of detect_coupons_in_email lets the email through
PassesGate(subject, body) == extract_keywords(AllText(subject, body)) # <<>>

\* every (code, confidence, context) tuple of a field's list has an entry in
\* the list cs
EntriesIn(field_codes, cs) ==
  \A i \in 1..Len(field_codes) : \E j \in 1..Len(cs) :
     /\ cs[j].code = field_codes[i].code
     /\ cs[j].confidence = field_codes[i].confidence
     /\ cs[j].context = field_codes[i].context

\* the keywords of a list, as a set
KeywordsIn(ks) == { ks[i] : i \in 1..Len(ks) }

\* C29: field independence of scoring. Of two emails that pass the keyword
\* gate and have the same subject, the entries extracted from the subject
\* have the same code, confidence and context in both results whatever the
\* bodies are, and likewise the entries of the body when only the subject
\* differs; the keywords of the other field are in keywords_found.
C29_FieldIndependence ==
  (/\ op = "detect_coupons_in_email_other"
   /\ PassesGate(arg_subject, arg_body)
   /\ PassesGate(again_subject, again_body)) =>
     /\ again_subject = arg_subject =>
          EntriesIn(subject_codes, ret) /\ EntriesIn(subject_codes, ret_again)
     /\ again_body = arg_body =>
          EntriesIn(body_codes, ret) /\ EntriesIn(body_codes, ret_again)
     /\ \A i \in 1..Len(ret_again) :
          /\ ret_again[i].keywords_found =
               extract_keywords(AllText(again_subject, again_body))
          /\ KeywordsIn(extract_keywords(again_subject))
               \cup KeywordsIn(extract_keywords(again_body))
                 \subseteq KeywordsIn(ret_again[i].keywords_found)

\* the second body brings a keyword the subject and the first body lack, and
\* the subject holds a code
C29_Witness ==
  /\ op = "detect_coupons_in_email_other"
  /\ again_subject = arg_subject
  /\ PassesGate(arg_subject, arg_body)
  /\ subject_codes # <<>>
  /\ ret_again # <<>>
  /\ \E w \in KeywordsIn(ret_again[1].keywords_found) :
        /\ w \notin KeywordsIn(ret[1].keywords_found)
        /\ w \notin KeywordsIn(extract_keywords(arg_subject))
  /\ Len(extract_keywords(arg_subject)) < 3

LowConfidence == "Low confidence codes detected - may be false positives"

\* C30: confidence floor. Every entry detect_coupons_in_email returns has a
\* confidence of at least 0.6, and _get_recommendation never answers a
\* detection result with the low-confidence message.
C30_ConfidenceFloor ==
  op = "detect_coupons_in_email" =>
     /\ \A i \in 1..Len(ret) : ~FLess(ret[i].confidence, F0_6)
     /\ get_recommendation(ret).text # LowConfidence

\* C30 as far as it holds: the confidence is at least 0.5, it is at least
\* 0.6 for a code of ASCII capitals and digits, and the low-confidence
\* message is never the answer.
C30_ConfidenceFloorAscii ==
  op = "detect_coupons_in_email" =>
     /\ \A i \in 1..Len(ret) :
          /\ ~FLess(ret[i].confidence, F0_5)
          /\ IsCapsAlnum(ret[i].code) => ~FLess(ret[i].confidence, F0_6)
     /\ get_recommendation(ret).text # LowConfidence

----------------------------------------------------------------------------
(* The server's tools as calls.  tool_call is the tool last called with its *)
(* arguments, tool_ret what it returned; logger_before and                  *)
(* spreadsheets_before are sheets_logger and the spreadsheets as that call  *)
(* found them; setup_succeeded records that some call of                    *)
(* setup_sheets_integration returned success=True.                          *)

\* the tool leaves the detector's variables alone
ServerFrame == UNCHANGED <<seq_vars, thread_vars, detector>>

\* what a tool returns while "not sheets_logger"
NotConfiguredResult == [error |-> NotConfigured, success |-> FALSE]

\* what every tool call records
Called(call, result) ==
  /\ tool_call' = call
  /\ tool_ret' = result
  /\ logger_before' = sheets_logger
  /\ spreadsheets_before' = spreadsheets

\* setup_sheets_integration, from create_or_get_sheet's answer on
setup_result(made, sheet_name) ==
  IF made.ok
  THEN [success |-> TRUE,
        message |-> "Google Sheets integration set up successfully",
        sheet_name |-> sheet_name,
        sheet_url |-> get_sheet_url(made.logger),
        status |-> "Ready to log coupons"]
  ELSE [success |-> FALSE,
        error |-> "Failed to create or access Google Sheet",
        message |-> "Check your credentials and permissions"]

\* setup_sheets_integration
SetupSheetsIntegration ==
  \E credentials_json \in {GoodCredentials, BadCredentials, <<>>},
     sheet_name \in SheetNames, api \in ApiOutcomes :
    LET made == create_or_get_sheet(SheetsLogger(credentials_json, sheet_name),
                                    api)
    IN  /\ sheets_logger' = made.logger
        /\ spreadsheets' =
             IF made.ok
             THEN [spreadsheets EXCEPT ![sheet_name] = OpenedWorksheet(@)]
             ELSE spreadsheets
        /\ setup_succeeded' = (setup_succeeded \/ made.ok)
        /\ Called([tool |-> "setup_sheets_integration",
                   credentials_json |-> credentials_json,
                   sheet_name |-> sheet_name],
                  setup_result(made, sheet_name))
        /\ ServerFrame

\* the spreadsheets after the worksheet a logger holds got these rows
Stored(logger, sheets, rows) ==
  IF logger.worksheet # NoObject
  THEN [sheets EXCEPT ![logger.worksheet] = rows]
  ELSE sheets

\* log_coupons_to_sheets, from log_multiple_coupons on
logged_result(logger, detected_coupons, new_coupons, results) ==
  [rows |-> results.rows,
   result |-> [success |-> TRUE,
               processed |-> Len(detected_coupons),
               coupons_logged |-> results.success,
               coupons_failed |-> results.failed,
               new_codes |-> CodeList(new_coupons),
               sheet_url |-> get_sheet_url(logger)]]

\* log_coupons_to_sheets, from the list new_coupons on
log_new_coupons(logger, rows, detected_coupons, new_coupons, api) ==
  IF Len(new_coupons) = 0
  THEN [rows |-> rows,
        result |-> [success |-> TRUE,
                    message |-> "All detected coupons already exist in sheet",
                    coupons_logged |-> 0,
                    duplicate_codes |-> CodeList(detected_coupons)]]
  ELSE logged_result(logger, detected_coupons, new_coupons,
                     log_multiple_coupons(rows, new_coupons, 1,
                                          logger.worksheet # NoObject, api))

\* log_coupons_to_sheets: the rows of the logger's worksheet afterwards and
\* the dictionary returned.  api: whether the calls to the Sheets API go
\* through; get_existing_coupons returns [] when its call raises.
log_coupons_to_sheets(logger, rows, detected_coupons, api) ==
  IF ~IsLogger(logger)
  THEN [rows |-> rows, result |-> NotConfiguredResult]
  ELSE IF Len(detected_coupons) = 0
  THEN [rows |-> rows,
        result |-> [success |-> TRUE,
                    message |-> "No coupons detected in email",
                    coupons_logged |-> 0]]
  ELSE log_new_coupons(logger, rows, detected_coupons,
                       NewCoupons(detected_coupons,
                                  IF api = "ok"
                                  THEN get_existing_coupons(
                                         rows, logger.worksheet # NoObject)
                                  ELSE <<>>),
                       api)

\* log_coupons_to_sheets
LogCouponsToSheets ==
  \E e \in ToolEmails, now \in Clock, api \in ApiOutcomes :
    LET out == log_coupons_to_sheets(sheets_logger,
                                     RowsOf(sheets_logger, spreadsheets),
                                     Stamp(Detected[e], now), api)
    IN  /\ Len(out.rows) <= MaxSheetRows
        /\ spreadsheets' = Stored(sheets_logger, spreadsheets, out.rows)
        /\ Called([tool |-> "log_coupons_to_sheets", email_subject |-> e[1],
                   email_body |-> e[2], sender |-> e[3]],
                  out.result)
        /\ UNCHANGED <<sheets_logger, setup_succeeded>>
        /\ ServerFrame

\* update_coupon_status (the tool), from the logger's answer on
updated_result(done, coupon_code, status) ==
  [rows |-> done.rows,
   result |-> IF done.ok
              THEN [success |-> TRUE, coupon_code |-> coupon_code,
                    new_status |-> status]
              ELSE [success |-> FALSE,
                    error |-> "Could not find or update coupon"]]

\* datetime.now().strftime("%Y-%m-%d") if status.lower() == "used" else ""
used_date_of(status, now) ==
  IF lower(status) = lower(Used) THEN strftime_date(now) ELSE <<>>

\* update_coupon_status (the tool): the rows of the logger's worksheet
\* afterwards and the dictionary returned
update_coupon_status(logger, rows, coupon_code, status, notes, now, api) ==
  IF ~IsLogger(logger)
  THEN [rows |-> rows, result |-> NotConfiguredResult]
  ELSE updated_result(
         IF logger.worksheet # NoObject /\ api = "ok"
         THEN update_status_cells(rows, coupon_code, status,
                                  used_date_of(status, now), notes)
         ELSE [rows |-> rows, ok |-> FALSE],
         coupon_code, status)

\* update_coupon_status
UpdateCouponStatus ==
  \E coupon_code \in UpdateCodes, status \in Statuses, notes \in NotesTexts,
     now \in Clock, api \in ApiOutcomes :
    LET out == update_coupon_status(sheets_logger,
                                    RowsOf(sheets_logger, spreadsheets),
                                    coupon_code, status, notes, now, api)
    IN  /\ spreadsheets' = Stored(sheets_logger, spreadsheets, out.rows)
        /\ Called([tool |-> "update_coupon_status",
                   coupon_code |-> coupon_code, status |-> status,
                   notes |-> notes, api |-> api], out.result)
        /\ UNCHANGED <<sheets_logger, setup_succeeded>>
        /\ ServerFrame

\* get_coupon_statistics (the tool): the dictionary returned
get_coupon_statistics(logger, rows, api) ==
  IF ~IsLogger(logger) THEN NotConfiguredResult
  ELSE IF logger.worksheet # NoObject /\ api = "ok"
  THEN [success |-> TRUE] @@ sheet_statistics(rows, get_sheet_url(logger))
  ELSE [success |-> TRUE]

\* get_coupon_statistics
GetCouponStatistics ==
  \E api \in ApiOutcomes :
    /\ Called([tool |-> "get_coupon_statistics"],
              get_coupon_statistics(sheets_logger,
                                    RowsOf(sheets_logger, spreadsheets), api))
    /\ UNCHANGED <<sheets_logger, spreadsheets, setup_succeeded>>
    /\ ServerFrame

\* get_server_info: integration_status
GetServerInfo ==
  /\ Called([tool |-> "get_server_info"],
            [server_name |-> "Coupon Detection MCP Server",
             version |-> "1.0.0",
             integration_status |->
               [google_sheets |-> IF IsLogger(sheets_logger) THEN "Available"
                                  ELSE "Not configured",
                coupon_detector |-> "Active",
                demo_system |-> "Available"]])
  /\ UNCHANGED <<sheets_logger, spreadsheets, setup_succeeded>>
  /\ ServerFrame

\* demo_coupon_detection_workflow from demo_emails[demo_email_index] on; at
\* is the place of that email in the list, 0 when the index raises
demo_result(at, logger) ==
  IF at = 0 THEN [error |-> "Demo failed: list index out of range"]
  ELSE [demo_email |-> [subject |-> demo_emails[at].subject,
                        sender |-> demo_emails[at].sender,
                        expected_codes |-> demo_emails[at].expected_codes],
        analysed |-> at,
        step_3_sheets_status |-> [sheets_configured |-> IsLogger(logger)]]

\* demo_coupon_detection_workflow.  The result says which email the steps
\* ran on; what the detector found in its body is not computed here.
demo_coupon_detection_workflow(demo_email_index, logger) ==
  IF demo_email_index >= Len(demo_emails)
  THEN [error |-> "Invalid demo email index. Use 0-4",
        available_emails |-> Len(demo_emails)]
  ELSE demo_result(ListIndex(Len(demo_emails), demo_email_index), logger)

DemoCouponDetectionWorkflow ==
  \E demo_email_index \in DemoIndexes :
    /\ Called([tool |-> "demo_coupon_detection_workflow",
               demo_email_index |-> demo_email_index],
              demo_coupon_detection_workflow(demo_email_index, sheets_logger))
    /\ UNCHANGED <<sheets_logger, spreadsheets, setup_succeeded>>
    /\ ServerFrame

\* detect_coupons_in_email (the tool)
DetectCouponsInEmailTool ==
  \E e \in ToolEmails, now \in Clock :
    \E unique_keywords \in ListsOfSet(KeywordSet(Detected[e])) :
      /\ Called([tool |-> "detect_coupons_in_email", email_subject |-> e[1],
                 email_body |-> e[2], sender |-> e[3]],
                detection_result(Stamp(Detected[e], now), unique_keywords, now))
      /\ UNCHANGED <<sheets_logger, spreadsheets, setup_succeeded>>
      /\ ServerFrame

\* is_promotional_email (the tool)
IsPromotionalEmailTool ==
  \E e \in ToolEmails :
    /\ Called([tool |-> "is_promotional_email", email_subject |-> e[1],
               email_body |-> e[2]],
              promotional_result(is_promotional_email(e[1], e[2]),
                                 KeywordsOf[e]))
    /\ UNCHANGED <<sheets_logger, spreadsheets, setup_succeeded>>
    /\ ServerFrame

ServerNext ==
  \/ SetupSheetsIntegration
  \/ LogCouponsToSheets
  \/ UpdateCouponStatus
  \/ GetCouponStatistics
  \/ GetServerInfo
  \/ DemoCouponDetectionWorkflow
  \/ DetectCouponsInEmailTool
  \/ IsPromotionalEmailTool

ServerSpec == Init /\ [][ServerNext]_vars

----------------------------------------------------------------------------
(* Properties of the server's tools.                                       *)

SheetTools ==
  {"log_coupons_to_sheets", "update_coupon_status", "get_coupon_statistics"}

\* C26: the Sheets tools require a successful setup. While no call of
\* setup_sheets_integration has returned success=True, log_coupons_to_sheets,
\* update_coupon_status and get_coupon_statistics return the "Google Sheets
\* not configured" error and get_server_info reports google_sheets as
\* "Not configured".
C26_SetupRequired ==
  ~setup_succeeded =>
     /\ tool_call.tool \in SheetTools => tool_ret = NotConfiguredResult
     /\ tool_call.tool = "get_server_info" =>
          tool_ret.integration_status.google_sheets = "Not configured"

\* C26 as far as it holds: while setup_sheets_integration has not been
\* called at all, the Sheets tools give the error and get_server_info
\* reports "Not configured".
C26_SetupNeverCalled ==
  sheets_logger = NoLogger =>
     /\ tool_call.tool \in SheetTools => tool_ret = NotConfiguredResult
     /\ tool_call.tool = "get_server_info" =>
          tool_ret.integration_status.google_sheets = "Not configured"

\* C27: a failed setup changes nothing. A call of setup_sheets_integration
\* that returns success=False leaves sheets_logger as it was before the
\* call.
C27_FailedSetupChangesNothing ==
  (tool_call.tool = "setup_sheets_integration" /\ ~tool_ret.success) =>
     sheets_logger = logger_before

\* the codes of the logged rows of a worksheet are pairwise different
NoDuplicateCodes(rows) ==
  \A i, j \in 2..Len(rows) :
     i # j => rows[i][CodeColumn] # rows[j][CodeColumn]

\* C22: no duplicate rows. After any sequence of log_coupons_to_sheets calls
\* whose appends succeed, no coupon code is in the Coupon Code column of more
\* than one logged row.
C22_NoDuplicateRows ==
  \A name \in SheetNames : NoDuplicateCodes(spreadsheets[name])

\* C22 as far as it holds: a call never logs a code that was in the sheet
\* when the call began.
C22_NoRepeatOfLoggedCodes ==
  tool_call.tool = "log_coupons_to_sheets" =>
     \A name \in SheetNames :
        LET before == spreadsheets_before[name]
            after == spreadsheets[name]
        IN  \A i \in 2..Len(before) : \A j \in (Len(before) + 1)..Len(after) :
               after[j][CodeColumn] # before[i][CodeColumn]

\* the rows a call of update_coupon_status changed
ChangedRows(before, after) ==
  { r \in 1..Len(before) : after[r] # before[r] }

\* C23: update_coupon_status targets by code value. A call changes cells
\* only in a logged row whose Coupon Code cell equals the code, never in the
\* header row or in a row logged for another code; when no row has the code
\* it returns failure and leaves the sheet unchanged.
C23_TargetsByCode ==
  tool_call.tool = "update_coupon_status" =>
     \A name \in SheetNames :
        LET before == spreadsheets_before[name]
            after == spreadsheets[name]
        IN  /\ \A r \in ChangedRows(before, after) :
                 r > 1 /\ before[r][CodeColumn] = tool_call.coupon_code
            /\ (\A r \in 2..Len(before) :
                   before[r][CodeColumn] # tool_call.coupon_code) =>
                 ~tool_ret.success /\ after = before

\* the value a cell has after a call wrote value into it when value is not
\* empty
Written(value, old) == IF value # <<>> THEN value ELSE old

\* the row old after status, used date and notes were written into it
UpdatedRow(old, status, used_date, notes) ==
  [c \in 1..Len(old) |->
     IF c = StatusColumn THEN status
     ELSE IF c = UsedDateColumn THEN Written(used_date, old[c])
     ELSE IF c = NotesColumn THEN Written(notes, old[c])
     ELSE old[c]]

\* the used date the tool supplies
Supplied(status) ==
  IF lower(status) = <<"u","s","e","d">>
  THEN { strftime_date(now) : now \in Clock } ELSE {<<>>}

\* C24: frame of update_coupon_status. A successful update writes the status
\* cell of one row, its used-date cell only when a used date is supplied and
\* its notes cell only when notes are supplied, and leaves every other cell
\* of every sheet as it was; the used date supplied is today's date exactly
\* when the status is "used" in any case, so that a later change to another
\* status keeps the used date.
C24_UpdateFrame ==
  (tool_call.tool = "update_coupon_status" /\ tool_ret.success) =>
     \E name \in SheetNames : \E used_date \in Supplied(tool_call.status) :
        \E target \in 1..Len(spreadsheets_before[name]) :
           /\ spreadsheets[name] =
                [spreadsheets_before[name] EXCEPT ![target] =
                   UpdatedRow(@, tool_call.status, used_date, tool_call.notes)]
           /\ \A other \in SheetNames \ {name} :
                 spreadsheets[other] = spreadsheets_before[other]

\* a row marked used was given another status without notes: it keeps its
\* used date and its notes
C24_Witness ==
  /\ tool_call.tool = "update_coupon_status"
  /\ tool_ret.success
  /\ lower(tool_call.status) # <<"u","s","e","d">>
  /\ tool_call.notes = <<>>
  /\ \E name \in SheetNames : \E r \in 2..Len(spreadsheets[name]) :
        /\ spreadsheets[name][r] # spreadsheets_before[name][r]
        /\ spreadsheets[name][r][StatusColumn] = tool_call.status
        /\ spreadsheets[name][r][UsedDateColumn] # <<>>
        /\ spreadsheets[name][r][NotesColumn] # <<>>

InvalidIndex == "Invalid demo email index. Use 0-4"

\* C25: demo index validation. demo_coupon_detection_workflow(i) processes
\* the demo email at index i when 0 <= i <= 4 and returns the "Invalid demo
\* email index" error, analysing no email, for every other i.
C25_DemoIndexValidation ==
  tool_call.tool = "demo_coupon_detection_workflow" =>
     IF 0 <= tool_call.demo_email_index /\ tool_call.demo_email_index <= 4
     THEN /\ "analysed" \in DOMAIN tool_ret
          /\ tool_ret.analysed = tool_call.demo_email_index + 1
          /\ tool_ret.demo_email.subject =
               demo_emails[tool_call.demo_email_index + 1].subject
     ELSE /\ "analysed" \notin DOMAIN tool_ret
          /\ tool_ret.error = InvalidIndex

\* C25 as far as it holds: the indexes from 0 on
C25_DemoIndexFromZero ==
  (/\ tool_call.tool = "demo_coupon_detection_workflow"
   /\ tool_call.demo_email_index >= 0) =>
     IF tool_call.demo_email_index <= 4
     THEN /\ "analysed" \in DOMAIN tool_ret
          /\ tool_ret.analysed = tool_call.demo_email_index + 1
     ELSE /\ "analysed" \notin DOMAIN tool_ret
          /\ tool_ret.error = InvalidIndex

\* C28: the two tools agree on the promotional status. The is_promotional
\* field the detect_coupons_in_email tool returns for a subject and a body
\* equals the one the is_promotional_email tool returns for them.
C28_ToolsAgree ==
  tool_call.tool = "detect_coupons_in_email" =>
     tool_ret.is_promotional =
       promotional_result(
         is_promotional_email(tool_call.email_subject, tool_call.email_body),
         KeywordsOf[<<tool_call.email_subject, tool_call.email_body,
                      tool_call.sender>>]).is_promotional

\* C28 as far as it holds: an email the detect tool calls promotional is
\* promotional for the other tool
C28_DetectedIsPromotional ==
  (tool_call.tool = "detect_coupons_in_email" /\ tool_ret.is_promotional) =>
     is_promotional_email(tool_call.email_subject, tool_call.email_body)

====
